---- MODULE Spec2Model ----
(***************************************************************************)
(* A model of the PyAST analysis / transformation engine: the node classes *)
(* (nodes.py), the Transformer and its reference passes (transformer.py),  *)
(* the SymbolTable (symbols.py), the Matcher (matcher.py) and the          *)
(* Serializer (serializer.py).                                             *)
(*                                                                         *)
(* Python objects live in a heap: a node is a heap cell, a node reference  *)
(* is the cell's index (its id()), None is the reference 0.  Every         *)
(* attribute value carries its dynamic type in the field k, so that        *)
(* hasattr / isinstance tests of the code translate literally.             *)
(***************************************************************************)
EXTENDS Integers, Sequences, FiniteSets, TLC

VARIABLES
    heap,       \* the node objects: heap[i] is the node with identity i
    root,       \* the tree handed to the components (a node reference)
    src_tree,   \* structural snapshot of the tree as the front-end built it
    prev_tree,  \* structural snapshot of the tree before the last operation
    prev_heap,  \* the heap before the last operation
    passes,     \* Transformer.passes: the registered pass instances, in order
    runs,       \* number of Transformer.transform calls made so far
    outcome,    \* what the last operation returned or raised
    table,      \* the SymbolTable: scopes, current scope, memo cache
    matches,    \* the Matcher: its registry, the last query and the list returned
    ser         \* the Serializer's last run: encoder trace, document, decoded tree

vars == <<heap, root, src_tree, prev_tree, prev_heap, passes, runs, outcome,
          table, matches, ser>>

(***************************************************************************)
(* Attribute values.                                                       *)
(***************************************************************************)
NoneVal == [k |-> "none", v |-> 0]
Str(s) == [k |-> "str", v |-> s]
IntV(n) == [k |-> "int", v |-> n]
NodeRef(i) == IF i = 0 THEN NoneVal ELSE [k |-> "node", v |-> i]
NodeList(ids) == [k |-> "list", v |-> ids]
StrList(ss) == [k |-> "strs", v |-> ss]
DictList(ds) == [k |-> "dicts", v |-> ds]

IsNode(val) == val.k = "node"
IsList(val) == val.k \in {"list", "strs", "dicts"}
\* the items of a list value that are Node instances (0 stands for None)
ItemIsNode(val, i) == val.k = "list" /\ val.v[i] # 0

NoPos == NoneVal

\* the element of a one-element set: The({e(r) : r \in {x}}) is e(x), with the
\* intermediate result x written once
The(S) == CHOOSE x \in S : TRUE

(***************************************************************************)
(* Node classes (nodes.py).  A node is                                     *)
(*   [node_type, a, position, leading_comments, trailing_comments, extra]  *)
(* where a maps the class's own attribute names to their values.  The same *)
(* shape describes a tree on paper (a "term": child attributes hold the    *)
(* child terms) and a heap cell (child attributes hold references).        *)
(***************************************************************************)
Node(node_type, attrs) ==
    [node_type |-> node_type, a |-> attrs, position |-> NoPos,
     leading_comments |-> <<>>, trailing_comments |-> <<>>, extra |-> <<>>]

\* a child term as an attribute value (NoneVal stands for an absent child)
Child(t) == IF t = NoneVal THEN NoneVal ELSE [k |-> "node", v |-> t]

Program(body) == Node("Program", [body |-> NodeList(body)])
FunctionDef(name, args, body, decorator_list) ==
    Node("FunctionDef", [name |-> Str(name), args |-> StrList(args),
                         body |-> NodeList(body),
                         decorator_list |-> NodeList(decorator_list)])
ClassDef(name, bases, body, decorator_list) ==
    Node("ClassDef", [name |-> Str(name), bases |-> NodeList(bases),
                      body |-> NodeList(body),
                      decorator_list |-> NodeList(decorator_list)])
Assign(targets, value) ==
    Node("Assign", [targets |-> NodeList(targets), value |-> Child(value)])
BinOp(left, op, right) ==
    Node("BinOp", [left |-> Child(left), op |-> Str(op), right |-> Child(right)])
Name(id, ctx) == Node("Name", [id |-> Str(id), ctx |-> Str(ctx)])
Constant(value, kind) == Node("Constant", [value |-> value, kind |-> kind])
Call(func, args, keywords) ==
    Node("Call", [func |-> Child(func), args |-> NodeList(args),
                  keywords |-> DictList(keywords)])
Attribute(value, attr, ctx) ==
    Node("Attribute", [value |-> Child(value), attr |-> Str(attr), ctx |-> Str(ctx)])
If(test, body, orelse) ==
    Node("If", [test |-> Child(test), body |-> NodeList(body),
                orelse |-> NodeList(orelse)])
For(target, iter, body, orelse) ==
    Node("For", [target |-> Child(target), iter |-> Child(iter),
                 body |-> NodeList(body), orelse |-> NodeList(orelse)])
While(test, body, orelse) ==
    Node("While", [test |-> Child(test), body |-> NodeList(body),
                   orelse |-> NodeList(orelse)])
Return(value) == Node("Return", [value |-> Child(value)])
Break == Node("Break", [x \in {} |-> NoneVal])
Continue == Node("Continue", [x \in {} |-> NoneVal])
Import(names) == Node("Import", [names |-> DictList(names)])
ImportFrom(module, names, level) ==
    Node("ImportFrom", [module |-> Str(module), names |-> DictList(names),
                        level |-> IntV(level)])
Try(body, handlers, orelse, finalbody) ==
    Node("Try", [body |-> NodeList(body), handlers |-> NodeList(handlers),
                 orelse |-> NodeList(orelse), finalbody |-> NodeList(finalbody)])
ExceptHandler(type, name, body) ==
    Node("ExceptHandler", [type |-> Child(type), name |-> Str(name),
                           body |-> NodeList(body)])
With(items, body) ==
    Node("With", [items |-> DictList(items), body |-> NodeList(body)])
Raise(exc, cause) == Node("Raise", [exc |-> Child(exc), cause |-> Child(cause)])
AssertStmt(test, msg) == Node("Assert", [test |-> Child(test), msg |-> Child(msg)])
Pass == Node("Pass", [x \in {} |-> NoneVal])
Expr(value) == Node("Expr", [value |-> Child(value)])
Comment(value) == Node("Comment", [value |-> Str(value)])
\* the declaration node that symbols.py tests for; it carries the declared names
Global(names) == Node("Global", [names |-> StrList(names)])

\* NODE_CLASSES: the tags that have a node class, and a default-constructed node
NodeType ==
    {"Program", "FunctionDef", "ClassDef", "Assign", "BinOp", "Name", "Constant",
     "Call", "Attribute", "If", "For", "While", "Return", "Break", "Continue",
     "Import", "ImportFrom", "Try", "ExceptHandler", "With", "Raise", "Assert",
     "Pass", "Expr", "Comment"}

NODE_CLASSES(t) ==
    CASE t = "Program" -> Program(<<>>)
      [] t = "FunctionDef" -> FunctionDef("", <<>>, <<>>, <<>>)
      [] t = "ClassDef" -> ClassDef("", <<>>, <<>>, <<>>)
      [] t = "Assign" -> Assign(<<>>, NoneVal)
      [] t = "BinOp" -> BinOp(NoneVal, "", NoneVal)
      [] t = "Name" -> Name("", "load")
      [] t = "Constant" -> Constant(NoneVal, NoneVal)
      [] t = "Call" -> Call(NoneVal, <<>>, <<>>)
      [] t = "Attribute" -> Attribute(NoneVal, "", "load")
      [] t = "If" -> If(NoneVal, <<>>, <<>>)
      [] t = "For" -> For(NoneVal, NoneVal, <<>>, <<>>)
      [] t = "While" -> While(NoneVal, <<>>, <<>>)
      [] t = "Return" -> Return(NoneVal)
      [] t = "Break" -> Break
      [] t = "Continue" -> Continue
      [] t = "Import" -> Import(<<>>)
      [] t = "ImportFrom" -> ImportFrom("", <<>>, 0)
      [] t = "Try" -> Try(<<>>, <<>>, <<>>, <<>>)
      [] t = "ExceptHandler" -> ExceptHandler(NoneVal, "", <<>>)
      [] t = "With" -> With(<<>>, <<>>)
      [] t = "Raise" -> Raise(NoneVal, NoneVal)
      [] t = "Assert" -> AssertStmt(NoneVal, NoneVal)
      [] t = "Pass" -> Pass
      [] t = "Expr" -> Expr(NoneVal)
      [] t = "Comment" -> Comment("")

\* every attribute name a node class declares, in one fixed order
AllAttrs ==
    <<"body", "value", "left", "right", "func", "test", "target", "iter",
      "targets", "args", "orelse", "handlers", "finalbody", "decorator_list",
      "bases", "exc", "cause", "msg", "type", "keywords", "items", "names",
      "name", "id", "ctx", "op", "kind", "attr", "module", "level">>

HasAttr(n, attr) == attr \in DOMAIN n.a

(***************************************************************************)
(* Building the heap from a term: the front-end allocates one object per   *)
(* node of the tree, the parent before its children.                       *)
(***************************************************************************)
RECURSIVE Load(_, _)
RECURSIVE LoadList(_, _, _, _)
RECURSIVE LoadDicts(_, _, _, _)
RECURSIVE LoadAttrs(_, _, _, _)

LoadList(h, terms, i, acc) ==
    IF i > Len(terms) THEN [heap |-> h, ids |-> acc]
    ELSE The({LoadList(r.heap, terms, i + 1, Append(acc, r.id)) :
                 r \in {Load(h, terms[i])}})

\* a list of keyword dicts {"arg": str, "value": Node}
LoadDicts(h, ds, i, acc) ==
    IF i > Len(ds) THEN [heap |-> h, ids |-> acc]
    ELSE The({LoadDicts(r.heap, ds, i + 1,
                        Append(acc, [arg |-> ds[i].arg, value |-> r.id])) :
                 r \in {Load(h, ds[i].value)}})

\* the attributes of a term that hold nodes, in declaration order
ChildAttrs(t) ==
    SelectSeq(AllAttrs, LAMBDA attr : /\ attr \in DOMAIN t.a
                                     /\ t.a[attr].k \in {"node", "list", "dicts"})

LoadAttrs(h, id, t, attrs) ==
    IF attrs = <<>> THEN [heap |-> h, id |-> id]
    ELSE LET attr == Head(attrs)
             val == t.a[attr]
         IN The({LoadAttrs(h1, id, t, Tail(attrs)) :
                 h1 \in {CASE val.k = "node" ->
                              LET r == Load(h, val.v)
                              IN [r.heap EXCEPT ![id].a[attr] = NodeRef(r.id)]
                         [] val.k = "list" ->
                              LET r == LoadList(h, val.v, 1, <<>>)
                              IN [r.heap EXCEPT ![id].a[attr] = NodeList(r.ids)]
                         [] val.k = "dicts" ->
                              LET r == LoadDicts(h, val.v, 1, <<>>)
                              IN [r.heap EXCEPT ![id].a[attr] = DictList(r.ids)]}})

Load(h, t) == LoadAttrs(Append(h, t), Len(h) + 1, t, ChildAttrs(t))

(***************************************************************************)
(* Structural equality.  The node classes are dataclasses, so == compares  *)
(* two nodes field by field, recursively; Struct(h, id) is the value that  *)
(* comparison sees.  Python compares numbers by value (2 == 2.0), so both  *)
(* kinds of number are shown as the fraction they denote.                  *)
(***************************************************************************)
RECURSIVE Struct(_, _)

StructVal(h, val) ==
    CASE val.k = "node" -> [k |-> "node", v |-> Struct(h, val.v)]
      [] val.k = "list" ->
           [k |-> "list", v |-> [i \in 1..Len(val.v) |-> Struct(h, val.v[i])]]
      [] val.k = "dicts" ->
           [k |-> "list",
            v |-> [i \in 1..Len(val.v) |->
                     [arg |-> val.v[i].arg, value |-> Struct(h, val.v[i].value)]]]
      [] val.k = "strs" ->
           [k |-> "list", v |-> [i \in 1..Len(val.v) |-> Str(val.v[i])]]
      [] val.k = "int" -> [k |-> "num", v |-> <<val.v, 1>>]
      [] val.k = "float" -> [k |-> "num", v |-> val.v]
      [] OTHER -> val

Struct(h, id) ==
    IF id = 0 THEN NoneVal
    ELSE [h[id] EXCEPT !.a = [attr \in DOMAIN h[id].a |-> StructVal(h, h[id].a[attr])]]

(***************************************************************************)
(* The host's arithmetic on literal values.  An int is [k:"int", v:n]; a   *)
(* float is [k:"float", v:<<p, q>>], the fraction p/q in lowest terms with *)
(* q > 0 (rounding and overflow of binary floats are not modelled).        *)
(***************************************************************************)
FloatV(p, q) == [k |-> "float", v |-> <<p, q>>]
IsNum(val) == val.k \in {"int", "float"}
Numer(val) == IF val.k = "int" THEN val.v ELSE val.v[1]
Denom(val) == IF val.k = "int" THEN 1 ELSE val.v[2]

Abs(n) == IF n < 0 THEN -n ELSE n

RECURSIVE Gcd(_, _)
Gcd(m, n) == IF n = 0 THEN m ELSE Gcd(n, m % n)

\* the float p/q (q # 0)
Frac(p, q) ==
    LET g == Gcd(Abs(p), Abs(q))
        sgn == IF q < 0 THEN -1 ELSE 1
    IN FloatV(sgn * (p \div g), sgn * (q \div g))

\* floor(p / q) for q # 0
FloorDiv(p, q) == IF q < 0 THEN (-p) \div (-q) ELSE p \div q

RECURSIVE IntPow(_, _)
IntPow(b, e) == IF e = 0 THEN 1 ELSE b * IntPow(b, e - 1)

\* the result has type int exactly when both operands have
BothInt(l, r) == l.k = "int" /\ r.k = "int"
NumResult(l, r, p, q) ==
    IF BothInt(l, r) /\ q = 1 THEN IntV(p) ELSE Frac(p, q)

Ok(val) == [st |-> "ok", val |-> val]
Raised(exc) == [st |-> exc, val |-> NoneVal]

PyAdd(l, r) ==
    Ok(NumResult(l, r, Numer(l) * Denom(r) + Numer(r) * Denom(l), Denom(l) * Denom(r)))
PySub(l, r) ==
    Ok(NumResult(l, r, Numer(l) * Denom(r) - Numer(r) * Denom(l), Denom(l) * Denom(r)))
PyMul(l, r) ==
    Ok(NumResult(l, r, Numer(l) * Numer(r), Denom(l) * Denom(r)))
\* true division always gives a float
PyTrueDiv(l, r) ==
    IF Numer(r) = 0 THEN Raised("ZeroDivisionError")
    ELSE Ok(Frac(Numer(l) * Denom(r), Denom(l) * Numer(r)))
PyFloorDiv(l, r) ==
    IF Numer(r) = 0 THEN Raised("ZeroDivisionError")
    ELSE LET f == FloorDiv(Numer(l) * Denom(r), Denom(l) * Numer(r))
         IN Ok(IF BothInt(l, r) THEN IntV(f) ELSE Frac(f, 1))
\* the remainder of a division that truncates towards zero (the sign of the
\* dividend, as in C): not what Python computes
TruncatedMod(l, r) ==
    IF Numer(r) = 0 THEN Raised("ZeroDivisionError")
    ELSE LET n == Numer(l) * Denom(r)
             d == Denom(l) * Numer(r)
             q == IF (n < 0) = (d < 0) THEN Abs(n) \div Abs(d) ELSE -(Abs(n) \div Abs(d))
         IN Ok(NumResult(l, r, Numer(l) * Denom(r) - q * Numer(r) * Denom(l),
                         Denom(l) * Denom(r)))
\* l - r * floor(l / r): the result has the sign of the divisor
PyMod(l, r) ==
    IF Numer(r) = 0 THEN Raised("ZeroDivisionError")
    ELSE LET f == FloorDiv(Numer(l) * Denom(r), Denom(l) * Numer(r))
         IN Ok(NumResult(l, r,
                         Numer(l) * Denom(r) - f * Numer(r) * Denom(l),
                         Denom(l) * Denom(r)))
\* integer exponents only: int ** negative int is a float, 0 ** negative raises
PyPow(l, r) ==
    LET e == Numer(r) IN
    IF e >= 0
    THEN Ok(NumResult(l, r, IntPow(Numer(l), e), IntPow(Denom(l), e)))
    ELSE IF Numer(l) = 0 THEN Raised("ZeroDivisionError")
    ELSE Ok(Frac(IntPow(Denom(l), -e), IntPow(Numer(l), -e)))

\* value == 0 as Python evaluates it (None == 0 is False)
PyEqZero(val) == IsNum(val) /\ Numer(val) = 0

(***************************************************************************)
(* Exceptions.  A raised exception is a record; the class hierarchy of     *)
(* errors.py decides which except clause catches it.                       *)
(***************************************************************************)
NoErr == [raised |-> FALSE, kind |-> "", pass_name |-> "", node_type |-> "",
          cause |-> ""]
\* an exception of class kind, whose message names a pass, a node tag and a cause
Err(kind, pass_name, node_type, cause) ==
    [raised |-> TRUE, kind |-> kind, pass_name |-> pass_name,
     node_type |-> node_type, cause |-> cause]

\* the classes an exception class derives from (itself included)
ExceptionBases(kind) ==
    CASE kind \in {"TransformError", "MatchError", "SerializeError", "SymbolError",
                   "ParseError"} -> {kind, "PyASTError", "Exception"}
      [] OTHER -> {kind, "Exception"}

\* "except (classes)" catches an exception of class kind
Catches(classes, kind) == ExceptionBases(kind) \cap classes # {}

(***************************************************************************)
(* Transformation passes (transformer.py).  A pass instance is a record    *)
(* holding the class, the name and the instance's mutable fields.  The     *)
(* walk threads st = [heap, ps, index, err, log]: the heap, the pass       *)
(* instance and its position in Transformer.passes, the exception in       *)
(* flight, and the trace of the run: the transform calls of _apply_pass    *)
(* ("transform", with what each returned: "return"), the slots _apply_pass *)
(* assigned ("assign") and the attributes a pass assigned itself           *)
(* ("mutate"), in the order they happened.                                 *)
(***************************************************************************)
LogEntry(kind, st, n, attr, val) ==
    [kind |-> kind, index |-> st.index, pass_name |-> st.ps.name, node |-> n,
     attr |-> attr, val |-> val]

\* setattr(node, attr, val) / node.attr = val on an existing node
SetAttr(st, kind, n, attr, val) ==
    [st EXCEPT !.heap[n].a[attr] = val,
               !.log = Append(@, LogEntry(kind, st, n, attr, val))]

TransformPass(cls, name) ==
    [cls |-> cls, name |-> name, reachable |-> TRUE, used_variables |-> {},
     function_defs |-> <<>>, old_name |-> "", new_name |-> ""]
ConstantFoldingPass == TransformPass("ConstantFoldingPass", "constant_folding")
DeadCodeEliminationPass ==
    TransformPass("DeadCodeEliminationPass", "dead_code_elimination")
UnusedVariableRemovalPass ==
    TransformPass("UnusedVariableRemovalPass", "unused_variable_removal")

\* VariableRenamingPass(old_name, new_name)
VariableRenamingPass(old_name, new_name) ==
    [TransformPass("VariableRenamingPass",
                   "rename_" \o old_name \o "_to_" \o new_name)
       EXCEPT !.old_name = old_name, !.new_name = new_name]
\* FunctionInliningPass(): function_defs is the dict name -> FunctionDef, kept
\* as the sequence of its <<name, node>> items
FunctionInliningPass == TransformPass("FunctionInliningPass", "function_inlining")

\* TransformPass.should_transform: no reference pass overrides the default
should_transform(ps, n) == TRUE

\* a new node object
Alloc(h, node) == [heap |-> Append(h, node), id |-> Len(h) + 1]

IsInstance(h, n, cls) == n # 0 /\ h[n].node_type = cls

\* ---- ConstantFoldingPass ------------------------------------------------
\* the body of the try block: the outcome of evaluating left op right
FoldEval(op, l, r) ==
    IF op \notin {"+", "-", "*", "/", "//", "%", "**"} THEN Raised("return node")
    ELSE IF op \in {"/", "//", "%"} /\ PyEqZero(r) THEN Raised("TransformError")
    ELSE IF ~IsNum(l) \/ ~IsNum(r)
    THEN \* None or a node object as an operand of an arithmetic operator
         CASE {l.k, r.k} \subseteq {"int", "float", "none", "node"} ->
                Raised("TypeError")
    ELSE CASE op = "+" -> PyAdd(l, r)
           [] op = "-" -> PySub(l, r)
           [] op = "*" -> PyMul(l, r)
           [] op = "/" -> PyTrueDiv(l, r)
           [] op = "//" -> PyFloorDiv(l, r)
           [] op = "%" -> PyMod(l, r)
           [] op = "**" -> PyPow(l, r)

\* hasattr(node.left, 'value'): None has no attributes
OperandHasValue(h, val) == IsNode(val) /\ HasAttr(h[val.v], "value")

ConstantFoldingPass_transform(st, n) ==
    LET h == st.heap
        node == h[n]
    IN IF ~(HasAttr(node, "left") /\ HasAttr(node, "right") /\ HasAttr(node, "op"))
       THEN [st |-> st, node |-> n]
       ELSE IF ~(OperandHasValue(h, node.a.left) /\ OperandHasValue(h, node.a.right))
       THEN [st |-> st, node |-> n]
       ELSE The({
              CASE e.st = "ok" ->
                     LET r == Alloc(h, Constant(e.val, NoneVal))
                     IN [st |-> [st EXCEPT !.heap = r.heap], node |-> r.id]
                [] e.st = "return node" -> [st |-> st, node |-> n]
                [] Catches({"ZeroDivisionError", "OverflowError", "ValueError"}, e.st) ->
                     [st |-> [st EXCEPT !.err = Err("TransformError", "", "",
                                                     "Constant folding failed")],
                      node |-> n]
                [] Catches({"Exception"}, e.st) -> [st |-> st, node |-> n]
              : e \in {FoldEval(node.a.op.v, h[node.a.left.v].a.value,
                                h[node.a.right.v].a.value)}})

\* ---- DeadCodeEliminationPass --------------------------------------------
\* a pass for which no statement ends the control flow
NeverTerminating(h, n) == FALSE

is_terminating_statement(h, n) ==
    n # 0 /\ h[n].node_type \in {"Return", "Break", "Continue", "Raise"}

RECURSIVE DeadCodeEliminationPass_transform(_, _)
RECURSIVE DeadCodeBody(_, _, _, _)

\* [self.transform(child) for child in node.body if self.should_transform(child)]
DeadCodeBody(st, items, i, acc) ==
    IF i > Len(items) THEN [st |-> st, items |-> acc]
    ELSE IF ~should_transform(st.ps, items[i])
    THEN DeadCodeBody(st, items, i + 1, acc)
    ELSE The({DeadCodeBody(r.st, items, i + 1, Append(acc, r.node)) :
                 r \in {DeadCodeEliminationPass_transform(st, items[i])}})

DeadCodeEliminationPass_transform(st, n) ==
    IF IsInstance(st.heap, n, "Program")
    THEN LET st1 == [st EXCEPT !.ps.reachable = TRUE]
             r == DeadCodeBody(st1, st1.heap[n].a.body.v, 1, <<>>)
         IN [st |-> SetAttr(r.st, "mutate", n, "body", NodeList(r.items)), node |-> n]
    ELSE LET st1 == IF is_terminating_statement(st.heap, n)
                    THEN [st EXCEPT !.ps.reachable = FALSE] ELSE st
         IN IF ~st1.ps.reachable
            THEN LET r == Alloc(st1.heap, Pass)
                 IN [st |-> [st1 EXCEPT !.heap = r.heap], node |-> r.id]
            ELSE [st |-> st1, node |-> n]

\* ---- UnusedVariableRemovalPass ------------------------------------------
\* the attributes both phases probe, in the order of the code (TRUE: a list)
UnusedVariableAttrs ==
    <<<<"body", TRUE>>, <<"value", FALSE>>, <<"left", FALSE>>, <<"right", FALSE>>,
      <<"func", FALSE>>, <<"test", FALSE>>, <<"target", FALSE>>, <<"iter", FALSE>>,
      <<"targets", TRUE>>, <<"args", TRUE>>>>

RECURSIVE collect_used_variables(_, _, _)
RECURSIVE CollectAttrs(_, _, _, _)
RECURSIVE CollectList(_, _, _, _)

CollectList(h, used, val, i) ==
    IF i > Len(val.v) THEN used
    ELSE The({CollectList(h, used1, val, i + 1) :
                 used1 \in {IF ItemIsNode(val, i)
                            THEN collect_used_variables(h, used, val.v[i])
                            ELSE used}})

\* the entries of an attribute table that node has (hasattr)
ProbedAttrs(attrs, node) == SelectSeq(attrs, LAMBDA e : HasAttr(node, e[1]))

CollectAttrs(h, used, n, attrs) ==
    IF attrs = <<>> THEN used
    ELSE LET attr == Head(attrs)[1]
             isList == Head(attrs)[2]
             val == h[n].a[attr]
         IN The({CollectAttrs(h, used1, n, Tail(attrs)) :
                 used1 \in {IF isList /\ IsList(val)
                            THEN CollectList(h, used, val, 1)
                            ELSE IF ~isList /\ IsNode(val)
                            THEN collect_used_variables(h, used, val.v)
                            ELSE used}})

collect_used_variables(h, used, n) ==
    LET used1 == IF IsInstance(h, n, "Name") /\ h[n].a.ctx = Str("load")
                 THEN used \cup {h[n].a.id.v} ELSE used
    IN CollectAttrs(h, used1, n, ProbedAttrs(UnusedVariableAttrs, h[n]))

RECURSIVE remove_unused_assignments(_, _)
RECURSIVE RemoveAttrs(_, _, _)
RECURSIVE RemoveList(_, _, _, _, _)
RECURSIVE KeptTargets(_, _, _, _)

\* the targets left after deleting every Name target that is not in used
KeptTargets(h, used, targets, i) ==
    IF i > Len(targets) THEN <<>>
    ELSE LET t == targets[i]
             rest == KeptTargets(h, used, targets, i + 1)
         IN IF IsInstance(h, t, "Name") /\ h[t].a.id.v \notin used
            THEN rest ELSE <<t>> \o rest

\* [remove(child) for child in list if isinstance(child, Node)]; the Program
\* branch has no filter (nodesOnly = FALSE), and remove(None) is None
RemoveList(st, val, i, acc, nodesOnly) ==
    IF i > Len(val.v) THEN [st |-> st, items |-> acc]
    ELSE IF ~ItemIsNode(val, i)
    THEN RemoveList(st, val, i + 1,
                    IF nodesOnly THEN acc ELSE Append(acc, val.v[i]), nodesOnly)
    ELSE The({RemoveList(r.st, val, i + 1, Append(acc, r.node), nodesOnly) :
                 r \in {remove_unused_assignments(st, val.v[i])}})

RemoveAttrs(st, n, attrs) ==
    IF attrs = <<>> THEN [st |-> st, node |-> n]
    ELSE LET attr == Head(attrs)[1]
             isList == Head(attrs)[2]
             val == st.heap[n].a[attr]
         IN The({RemoveAttrs(st1, n, Tail(attrs)) :
                 st1 \in {IF isList /\ IsList(val)
                          THEN LET r == RemoveList(st, val, 1, <<>>, TRUE)
                               IN SetAttr(r.st, "mutate", n, attr, NodeList(r.items))
                          ELSE IF ~isList /\ IsNode(val)
                          THEN LET r == remove_unused_assignments(st, val.v)
                               IN SetAttr(r.st, "mutate", n, attr, NodeRef(r.node))
                          ELSE st}})

remove_unused_assignments(st, n) ==
    IF IsInstance(st.heap, n, "Program")
    THEN LET r == RemoveList(st, st.heap[n].a.body, 1, <<>>, FALSE)
         IN [st |-> SetAttr(r.st, "mutate", n, "body", NodeList(r.items)), node |-> n]
    ELSE IF IsInstance(st.heap, n, "Assign")
    THEN LET kept == KeptTargets(st.heap, st.ps.used_variables,
                                 st.heap[n].a.targets.v, 1)
             st1 == SetAttr(st, "mutate", n, "targets", NodeList(kept))
         IN IF kept = <<>>
            THEN \* return node.value if node.value else node
                 [st |-> st1,
                  node |-> IF IsNode(st1.heap[n].a.value)
                           THEN st1.heap[n].a.value.v ELSE n]
            ELSE RemoveAttrs(st1, n, ProbedAttrs(UnusedVariableAttrs, st1.heap[n]))
    ELSE RemoveAttrs(st, n, ProbedAttrs(UnusedVariableAttrs, st.heap[n]))

UnusedVariableRemovalPass_transform(st, n) ==
    IF IsInstance(st.heap, n, "Program")
    THEN LET used == collect_used_variables(st.heap, st.ps.used_variables, n)
         IN remove_unused_assignments([st EXCEPT !.ps.used_variables = used], n)
    ELSE [st |-> st, node |-> n]

\* VariableRenamingPass.transform
VariableRenamingPass_transform(st, n) ==
    IF HasAttr(st.heap[n], "id") /\ st.heap[n].a.id = Str(st.ps.old_name)
    THEN [st |-> SetAttr(st, "mutate", n, "id", Str(st.ps.new_name)), node |-> n]
    ELSE [st |-> st, node |-> n]

\* self.function_defs[child.name] = child, for the FunctionDef children of
\* the program in order: a later definition of a name replaces an earlier one
RECURSIVE CollectDefs(_, _, _, _)
CollectDefs(h, body, i, defs) ==
    IF i > Len(body.v) THEN defs
    ELSE IF ItemIsNode(body, i) /\ IsInstance(h, body.v[i], "FunctionDef")
    THEN CollectDefs(h, body, i + 1,
                     Append(SelectSeq(defs, LAMBDA d : d[1] # h[body.v[i]].a.name),
                            <<h[body.v[i]].a.name, body.v[i]>>))
    ELSE CollectDefs(h, body, i + 1, defs)

\* name in self.function_defs / self.function_defs[name]
InDefs(defs, name) == \E i \in DOMAIN defs : defs[i][1] = name
DefOf(defs, name) == The({defs[i][2] : i \in {j \in DOMAIN defs : defs[j][1] = name}})

\* a test that accepts every body of one statement, return or not
AnySingleStatement(h, func_def) == Len(h[func_def].a.body.v) = 1

\* FunctionInliningPass._is_simple_function
is_simple_function(h, func_def) ==
    /\ Len(h[func_def].a.body.v) = 1
    /\ ItemIsNode(h[func_def].a.body, 1)
    /\ IsInstance(h, h[func_def].a.body.v[1], "Return")

\* FunctionInliningPass._inline_function: the value of the return statement,
\* the very node of the function body; None (0) when the return has no value
inline_function(h, func_def, args) ==
    LET return_statement == h[func_def].a.body.v[1]
    IN IF IsInstance(h, return_statement, "Return")
          /\ IsNode(h[return_statement].a.value)
       THEN h[return_statement].a.value.v
       ELSE 0

\* FunctionInliningPass.transform
RECURSIVE FunctionInliningPass_transform(_, _)
RECURSIVE InlineList(_, _, _, _)
InlineList(st, body, i, acc) ==
    IF i > Len(body.v) THEN [st |-> st, items |-> acc]
    ELSE The({InlineList(r.st, body, i + 1, Append(acc, r.node)) :
                 r \in {FunctionInliningPass_transform(st, body.v[i])}})

FunctionInliningPass_transform(st, n) ==
    IF IsInstance(st.heap, n, "Program")
    THEN LET defs == CollectDefs(st.heap, st.heap[n].a.body, 1, <<>>)
             r == InlineList([st EXCEPT !.ps.function_defs = defs],
                             st.heap[n].a.body, 1, <<>>)
         IN [st |-> SetAttr(r.st, "mutate", n, "body", NodeList(r.items)), node |-> n]
    ELSE IF IsInstance(st.heap, n, "Call")
            /\ IsNode(st.heap[n].a.func)
            /\ IsInstance(st.heap, st.heap[n].a.func.v, "Name")
            /\ InDefs(st.ps.function_defs, st.heap[st.heap[n].a.func.v].a.id)
            /\ is_simple_function(st.heap,
                   DefOf(st.ps.function_defs, st.heap[st.heap[n].a.func.v].a.id))
    THEN [st |-> st,
          node |-> inline_function(st.heap,
                      DefOf(st.ps.function_defs, st.heap[st.heap[n].a.func.v].a.id),
                      st.heap[n].a.args)]
    ELSE [st |-> st, node |-> n]

(***************************************************************************)
(* Transformer (transformer.py).                                           *)
(***************************************************************************)
\* pass_instance.transform(node), by the class of the instance
pass_transform(st, n) ==
    CASE st.ps.cls = "ConstantFoldingPass" -> ConstantFoldingPass_transform(st, n)
      [] st.ps.cls = "DeadCodeEliminationPass" ->
           DeadCodeEliminationPass_transform(st, n)
      [] st.ps.cls = "UnusedVariableRemovalPass" ->
           UnusedVariableRemovalPass_transform(st, n)
      [] st.ps.cls = "VariableRenamingPass" -> VariableRenamingPass_transform(st, n)
      [] st.ps.cls = "FunctionInliningPass" -> FunctionInliningPass_transform(st, n)

\* sys.getrecursionlimit(), scaled to the depth of the modelled trees
RecursionLimit == 8

\* the attributes _apply_pass recurses into, in the order of the code
\* (TRUE: the attribute is expected to be a list)
ApplyPassAttrs ==
    <<<<"body", TRUE>>, <<"value", FALSE>>, <<"left", FALSE>>, <<"right", FALSE>>,
      <<"func", FALSE>>, <<"test", FALSE>>, <<"target", FALSE>>, <<"iter", FALSE>>,
      <<"targets", TRUE>>, <<"args", TRUE>>, <<"orelse", TRUE>>,
      <<"handlers", TRUE>>, <<"finalbody", TRUE>>>>

RECURSIVE apply_pass(_, _)
RECURSIVE ApplyAttrs(_, _, _)
RECURSIVE ApplyList(_, _, _, _)

\* [self._apply_pass(c, p) if isinstance(c, Node) else c for c in list]
ApplyList(st, val, i, acc) ==
    IF i > Len(val.v) \/ st.err.raised THEN [st |-> st, items |-> acc]
    ELSE IF ~ItemIsNode(val, i) THEN ApplyList(st, val, i + 1, Append(acc, val.v[i]))
    ELSE The({ApplyList(r.st, val, i + 1, Append(acc, r.node)) :
                 r \in {apply_pass(st, val.v[i])}})

\* the recursion into the children of the node that transform returned; an
\* exception leaves the attribute being rebuilt unassigned
ApplyAttrs(st, tn, attrs) ==
    IF attrs = <<>> \/ st.err.raised THEN [st |-> st, node |-> tn]
    ELSE LET attr == Head(attrs)[1]
             isList == Head(attrs)[2]
             val == st.heap[tn].a[attr]
         IN The({ApplyAttrs(st1, tn, Tail(attrs)) :
                 st1 \in {IF isList /\ IsList(val)
                          THEN LET r == ApplyList(st, val, 1, <<>>)
                               IN IF r.st.err.raised THEN r.st
                                  ELSE SetAttr(r.st, "assign", tn, attr,
                                               [val EXCEPT !.v = r.items])
                          ELSE IF ~isList /\ IsNode(val)
                          THEN LET r == apply_pass(st, val.v)
                               IN IF r.st.err.raised THEN r.st
                                  ELSE SetAttr(r.st, "assign", tn, attr, NodeRef(r.node))
                          ELSE st}})

\* transformed_node = pass_instance.transform(node), with its trace entries
Returned(r, n) ==
    IF r.st.err.raised THEN r
    ELSE [r EXCEPT !.st.log =
            Append(@, LogEntry("return", r.st, n, "",
                               IF r.node = 0 THEN NoneVal ELSE NodeRef(r.node)))]

\* an _apply_pass that recurses into the children of the node it was given
\* and not into those of the node that transform returned
ApplyOriginal(st, n) ==
    The({IF r.st.err.raised
         THEN [st |-> [r.st EXCEPT !.err =
                         Err("TransformError", "", st.heap[n].node_type, r.st.err.cause)],
               node |-> n]
         ELSE IF r.node = 0 THEN [st |-> r.st, node |-> 0]
         ELSE [ApplyAttrs(r.st, n, ProbedAttrs(ApplyPassAttrs, r.st.heap[n]))
                 EXCEPT !.node = r.node]
         : r \in {Returned(pass_transform(
                    [st EXCEPT !.log = Append(@, LogEntry("transform", st, n, "", NoneVal))],
                    n), n)}})

\* Transformer._apply_pass; st.depth counts the _apply_pass calls in progress,
\* and the interpreter raises RecursionError past its recursion limit
apply_pass(st, n) ==
    IF ~should_transform(st.ps, n) THEN [st |-> st, node |-> n]
    ELSE IF st.depth >= RecursionLimit
    THEN [st |-> [st EXCEPT !.err =
                    Err("RecursionError", "", st.heap[n].node_type,
                        "maximum recursion depth exceeded")],
          node |-> n]
    ELSE The({
           IF r.st.err.raised
           THEN [st |-> [r.st EXCEPT !.err =
                           Err("TransformError", "", st.heap[n].node_type, r.st.err.cause)],
                 node |-> n]
           ELSE IF r.node = 0 THEN [st |-> [r.st EXCEPT !.depth = st.depth], node |-> 0]
           ELSE The({[x EXCEPT !.st.depth = st.depth] :
                       x \in {ApplyAttrs(r.st, r.node,
                                  ProbedAttrs(ApplyPassAttrs, r.st.heap[r.node]))}})
           : r \in {Returned(pass_transform(
                      [st EXCEPT !.log = Append(@, LogEntry("transform", st, n, "", NoneVal)),
                                 !.depth = @ + 1],
                      n), n)}})

\* Transformer.transform: the passes in order, each over the whole tree; the
\* result is [heap, passes, tree, err, log]
RECURSIVE TransformFrom(_, _, _, _, _)
TransformFrom(h, ps, tree, i, log) ==
    IF i > Len(ps) THEN [heap |-> h, passes |-> ps, tree |-> tree, err |-> NoErr,
                         log |-> log]
    ELSE The({
           IF r.st.err.raised
           THEN [heap |-> r.st.heap, passes |-> [ps EXCEPT ![i] = r.st.ps],
                 tree |-> tree,
                 err |-> Err("TransformError", ps[i].name, r.st.err.node_type,
                             r.st.err.cause),
                 log |-> r.st.log]
           ELSE TransformFrom(r.st.heap, [ps EXCEPT ![i] = r.st.ps], r.node, i + 1,
                              r.st.log)
           : r \in {apply_pass([heap |-> h, ps |-> ps[i], index |-> i, err |-> NoErr,
                                log |-> log, depth |-> 0], tree)}})

\* the passes taken last-registered first
Reversed(ps) == [i \in DOMAIN ps |-> ps[Len(ps) + 1 - i]]
TransformReversed(h, ps, tree) ==
    The({[r EXCEPT !.passes = Reversed(@)] :
            r \in {TransformFrom(h, Reversed(ps), tree, 1, <<>>)}})

\* a transform that restores the node objects when a pass raises
TransformRollback(h, ps, tree) ==
    The({IF r.err.raised THEN [r EXCEPT !.heap = h] ELSE r :
            r \in {TransformFrom(h, ps, tree, 1, <<>>)}})

Transformer_transform(h, ps, tree) == TransformFrom(h, ps, tree, 1, <<>>)

(***************************************************************************)
(* Symbol table (symbols.py).  A scope is its index in SymbolTable.scopes  *)
(* (the root scope is 1, no scope is 0); a scope's symbols are kept in     *)
(* insertion order, as a dict keeps them; a symbol's definition and use    *)
(* sites are node references.  A confidence is a fraction <<p, q>>.        *)
(***************************************************************************)
TypeInfo(type_name, confidence) == [type_name |-> type_name, confidence |-> confidence]
NoType == TypeInfo("", <<0, 1>>)

Symbol(name, node_type) ==
    [name |-> name, node_type |-> node_type, definitions |-> <<>>,
     references |-> <<>>, scope_level |-> 0, type_info |-> NoType,
     is_global |-> FALSE, is_nonlocal |-> FALSE, is_builtin |-> FALSE]

Scope(name, level, parent) ==
    [name |-> name, level |-> level, parent |-> parent, symbols |-> <<>>,
     children |-> <<>>, globals |-> {}, nonlocals |-> {}]

\* SymbolTable.__init__
SymbolTable ==
    [scopes |-> <<Scope("global", 0, 0)>>, current_scope |-> 1, memo_cache |-> {},
     memoize |-> TRUE, walk |-> <<>>,
     err |-> NoErr]

\* the position of name in the symbols of scope sc, 0 when absent
SymIndex(sc, name) ==
    IF \E i \in DOMAIN sc.symbols : sc.symbols[i].name = name
    THEN CHOOSE i \in DOMAIN sc.symbols : sc.symbols[i].name = name
    ELSE 0

\* Scope.add_symbol: a name already present keeps its place in the dict
add_symbol(tb, s, name, symbol) ==
    LET sc == tb.scopes[s]
        sym == [symbol EXCEPT !.scope_level = sc.level]
        i == SymIndex(sc, name)
    IN [tb EXCEPT !.scopes[s].symbols =
                     IF i = 0 THEN Append(@, sym) ELSE [@ EXCEPT ![i] = sym]]

\* Scope.get_symbol: the first scope on the parent chain of s that has name
RECURSIVE get_symbol(_, _, _)
get_symbol(tb, s, name) ==
    IF s = 0 THEN 0
    ELSE IF SymIndex(tb.scopes[s], name) # 0 THEN s
    ELSE get_symbol(tb, tb.scopes[s].parent, name)

\* Symbol.add_definition / add_reference on the symbol name of scope s
add_definition(tb, s, name, node) ==
    [tb EXCEPT !.scopes[s].symbols[SymIndex(tb.scopes[s], name)].definitions =
                 Append(@, node)]
add_reference(tb, s, name, node) ==
    [tb EXCEPT !.scopes[s].symbols[SymIndex(tb.scopes[s], name)].references =
                 Append(@, node)]

\* SymbolTable.enter_scope
enter_scope(tb, name) ==
    [tb EXCEPT !.scopes = Append([@ EXCEPT ![tb.current_scope].children =
                                              Append(@, Len(tb.scopes) + 1)],
                                 Scope(name, Len(tb.scopes), tb.current_scope)),
               !.current_scope = Len(tb.scopes) + 1]

\* an exit_scope that does nothing in the root scope
SilentExit(tb) ==
    IF tb.scopes[tb.current_scope].parent # 0
    THEN [tb EXCEPT !.current_scope = tb.scopes[tb.current_scope].parent]
    ELSE tb

\* an exit_scope that goes back to the root scope
ExitToRoot(tb) ==
    IF tb.scopes[tb.current_scope].parent # 0
    THEN [tb EXCEPT !.current_scope = 1]
    ELSE [tb EXCEPT !.err = Err("ValueError", "", "", "Cannot exit root scope")]

\* SymbolTable.exit_scope
exit_scope(tb) ==
    IF tb.scopes[tb.current_scope].parent # 0
    THEN [tb EXCEPT !.current_scope = tb.scopes[tb.current_scope].parent]
    ELSE [tb EXCEPT !.err = Err("ValueError", "", "", "Cannot exit root scope")]

\* while scope.parent: scope = scope.parent
RECURSIVE TopScope(_, _)
TopScope(tb, s) == IF tb.scopes[s].parent = 0 THEN s ELSE TopScope(tb, tb.scopes[s].parent)

\* the nearest enclosing scope below the root that has name, from s upwards
RECURSIVE EnclosingWith(_, _, _)
EnclosingWith(tb, s, name) ==
    IF s = 0 \/ tb.scopes[s].parent = 0 THEN 0
    ELSE IF SymIndex(tb.scopes[s], name) # 0 THEN s
    ELSE EnclosingWith(tb, tb.scopes[s].parent, name)

\* SymbolTable.define_symbol
define_symbol(tb, name, node, symbol_type) ==
    LET cur == tb.current_scope
        new == [Symbol(name, symbol_type) EXCEPT !.definitions = <<node>>]
    IN IF name \in tb.scopes[cur].globals
       THEN add_symbol(tb, TopScope(tb, cur), name, [new EXCEPT !.is_global = TRUE])
       ELSE IF name \in tb.scopes[cur].nonlocals
       THEN LET s == EnclosingWith(tb, tb.scopes[cur].parent, name)
            IN IF s # 0
               THEN [add_definition(tb, s, name, node) EXCEPT
                       !.scopes[s].symbols[SymIndex(tb.scopes[s], name)].is_nonlocal = TRUE]
               ELSE add_symbol(tb, cur, name, [new EXCEPT !.is_nonlocal = TRUE])
       ELSE add_symbol(tb, cur, name, new)

\* a reference_symbol that looks for the name in the current scope only
ReferenceInCurrent(tb, name, node) ==
    IF SymIndex(tb.scopes[tb.current_scope], name) # 0
    THEN add_reference(tb, tb.current_scope, name, node)
    ELSE add_symbol(tb, tb.current_scope, name,
                    [Symbol(name, "variable") EXCEPT !.references = <<node>>])

\* SymbolTable.reference_symbol
reference_symbol(tb, name, node) ==
    LET s == get_symbol(tb, tb.current_scope, name)
    IN IF s # 0 THEN add_reference(tb, s, name, node)
       ELSE add_symbol(tb, tb.current_scope, name,
                       [Symbol(name, "variable") EXCEPT !.references = <<node>>])

\* SymbolTable.get_undefined_variables: the names of the symbols of kind
\* variable without a definition, scope by scope
RECURSIVE get_undefined_variables(_, _)
get_undefined_variables(tb, s) ==
    IF s > Len(tb.scopes) THEN <<>>
    ELSE LET undefined == SelectSeq(tb.scopes[s].symbols,
                                    LAMBDA symbol : /\ symbol.definitions = <<>>
                                                    /\ symbol.node_type = "variable")
         IN [i \in DOMAIN undefined |-> undefined[i].name]
            \o get_undefined_variables(tb, s + 1)

\* Scope.mark_global, for each declared name
mark_global(tb, names) ==
    [tb EXCEPT !.scopes[tb.current_scope].globals = @ \cup {names[i] : i \in DOMAIN names}]

\* for arg in node.args: self.define_symbol(arg, node, "parameter")
RECURSIVE DefineParams(_, _, _, _)
DefineParams(tb, args, node, i) ==
    IF i > Len(args) THEN tb
    ELSE The({DefineParams(tb1, args, node, i + 1) :
                 tb1 \in {define_symbol(tb, args[i], node, "parameter")}})

\* a store to name id at node: the first symbol id on the scope chain gets the
\* definition; without one the name is defined
StoreName(tb, id, node) ==
    LET s == get_symbol(tb, tb.current_scope, id)
    IN IF s # 0 THEN add_definition(tb, s, id, node)
       ELSE define_symbol(tb, id, node, "variable")

\* for target in node.targets: if isinstance(target, Name): ...
RECURSIVE AssignTargets(_, _, _, _, _)
AssignTargets(tb, h, targets, node, i) ==
    IF i > Len(targets) THEN tb
    ELSE The({AssignTargets(tb1, h, targets, node, i + 1) :
                 tb1 \in {IF IsInstance(h, targets[i], "Name")
                          THEN StoreName(tb, h[targets[i]].a.id.v, node)
                          ELSE tb}})

\* the attributes _analyze_child_nodes walks, in the order of the code
\* (TRUE: the attribute is expected to be a list)
SymbolChildAttrs ==
    <<<<"body", TRUE>>, <<"value", FALSE>>, <<"left", FALSE>>, <<"right", FALSE>>,
      <<"func", FALSE>>, <<"test", FALSE>>, <<"target", FALSE>>, <<"iter", FALSE>>,
      <<"orelse", TRUE>>, <<"handlers", TRUE>>, <<"finalbody", TRUE>>,
      <<"args", TRUE>>, <<"bases", TRUE>>, <<"decorator_list", TRUE>>,
      <<"exc", FALSE>>, <<"cause", FALSE>>, <<"msg", FALSE>>, <<"type", FALSE>>>>

RECURSIVE analyze_node(_, _, _)
RECURSIVE AnalyzeList(_, _, _, _)
RECURSIVE AnalyzeAttrs(_, _, _, _)

\* for child in list: if isinstance(child, Node): self._analyze_node(child)
AnalyzeList(tb, h, val, i) ==
    IF i > Len(val.v) THEN tb
    ELSE The({AnalyzeList(tb1, h, val, i + 1) :
                 tb1 \in {IF ItemIsNode(val, i) THEN analyze_node(tb, h, val.v[i])
                          ELSE tb}})

\* SymbolTable._analyze_child_nodes
AnalyzeAttrs(tb, h, n, attrs) ==
    IF attrs = <<>> THEN tb
    ELSE LET attr == Head(attrs)[1]
             isList == Head(attrs)[2]
             val == h[n].a[attr]
         IN The({AnalyzeAttrs(tb1, h, n, Tail(attrs)) :
                 tb1 \in {IF isList /\ IsList(val) THEN AnalyzeList(tb, h, val, 1)
                          ELSE IF ~isList /\ IsNode(val)
                          THEN analyze_node(tb, h, val.v)
                          ELSE tb}})

\* the branch of _analyze_node_internal for the class of node n
AnalyzeBranch(tb, h, n) ==
    LET node == h[n] IN
    CASE node.node_type \in {"FunctionDef", "ClassDef"} ->
           LET isFn == node.node_type = "FunctionDef"
               tb1 == enter_scope(
                        define_symbol(tb, node.a.name.v, n,
                                      IF isFn THEN "function" ELSE "class"),
                        (IF isFn THEN "function_" ELSE "class_") \o node.a.name.v)
               tb2 == IF isFn THEN DefineParams(tb1, node.a.args.v, n, 1) ELSE tb1
           IN exit_scope(AnalyzeList(tb2, h, node.a.body, 1))
      [] node.node_type = "Assign" ->
           LET tb1 == AssignTargets(tb, h, node.a.targets.v, n, 1)
           IN IF IsNode(node.a.value) THEN analyze_node(tb1, h, node.a.value.v) ELSE tb1
      [] node.node_type = "Name" ->
           IF node.a.ctx = Str("load") THEN reference_symbol(tb, node.a.id.v, n)
           ELSE IF node.a.ctx = Str("store") THEN StoreName(tb, node.a.id.v, n)
           ELSE tb
      [] node.node_type = "Global" -> mark_global(tb, node.a.names.v)
      [] OTHER -> tb

\* the current scope and the number of scopes when _analyze_node_internal is
\* called on node n and when it returns, kept in the order of the walk
WalkEntry(ev, tb, n) ==
    [ev |-> ev, node |-> n, scope |-> tb.current_scope, scopes |-> Len(tb.scopes)]

\* SymbolTable._analyze_node: _analyze_node_internal under the memo cache,
\* which records a node once its analysis has returned
analyze_node(tb, h, n) ==
    IF tb.memoize /\ n \in tb.memo_cache THEN tb
    ELSE The({[tb2 EXCEPT !.memo_cache = IF tb.memoize THEN @ \cup {n} ELSE @,
                          !.walk = Append(@, WalkEntry("return", tb2, n))] :
                 tb2 \in {The({AnalyzeAttrs(tb1, h, n, ProbedAttrs(SymbolChildAttrs, h[n])) :
                                  tb1 \in {AnalyzeBranch(
                                              [tb EXCEPT !.walk =
                                                 Append(@, WalkEntry("call", tb, n))],
                                              h, n)}})}})

\* ---- type inference ------------------------------------------------------
AnyType == TypeInfo("Any", <<1, 10>>)

\* SymbolTable._infer_node_type; isinstance(True, int) holds, so a boolean
\* literal is reported as int
RECURSIVE infer_node_type(_, _, _)
infer_node_type(tb, h, n) ==
    IF n = 0 THEN AnyType
    ELSE LET node == h[n] IN
         CASE node.node_type = "Name" ->
                LET s == get_symbol(tb, tb.current_scope, node.a.id.v)
                    t == IF s = 0 THEN NoType
                         ELSE tb.scopes[s].symbols[SymIndex(tb.scopes[s], node.a.id.v)].type_info
                IN IF t # NoType THEN t ELSE AnyType
           [] node.node_type = "Constant" ->
                CASE node.a.value.k = "str" -> TypeInfo("str", <<1, 1>>)
                  [] node.a.value.k \in {"int", "bool"} -> TypeInfo("int", <<1, 1>>)
                  [] node.a.value.k = "float" -> TypeInfo("float", <<1, 1>>)
                  [] node.a.value.k = "none" -> TypeInfo("NoneType", <<1, 1>>)
                  [] OTHER -> AnyType
           [] node.node_type = "BinOp" ->
                LET l == infer_node_type(tb, h, IF IsNode(node.a.left) THEN node.a.left.v ELSE 0)
                    r == infer_node_type(tb, h, IF IsNode(node.a.right) THEN node.a.right.v ELSE 0)
                IN IF l.type_name = r.type_name THEN l
                   ELSE IF {l.type_name, r.type_name} \subseteq {"int", "float"}
                   THEN TypeInfo("float", <<1, 1>>)
                   ELSE AnyType
           [] node.node_type = "Call" -> TypeInfo("Any", <<3, 10>>)
           [] OTHER -> AnyType

\* how often the type name of types[i] occurs in types
TypeCount(types, i) ==
    Cardinality({j \in DOMAIN types : types[j].type_name = types[i].type_name})

\* max(type_counts.items(), key=count): the first name to reach the top count
MostCommon(types) ==
    CHOOSE i \in DOMAIN types :
        /\ \A j \in DOMAIN types : TypeCount(types, j) <= TypeCount(types, i)
        /\ \A j \in 1..(i - 1) : TypeCount(types, j) < TypeCount(types, i)

\* SymbolTable._infer_symbol_type: the type set on symbol i of scope s
infer_symbol_type(tb, h, s, i) ==
    LET symbol == tb.scopes[s].symbols[i] IN
    CASE symbol.node_type = "function" -> TypeInfo("function", <<1, 1>>)
      [] symbol.node_type = "class" -> TypeInfo("class", <<1, 1>>)
      [] symbol.node_type = "parameter" -> TypeInfo("Any", <<1, 2>>)
      [] OTHER ->
           IF symbol.definitions = <<>> THEN NoType
           ELSE LET types == [d \in DOMAIN symbol.definitions |->
                                infer_node_type(tb, h, symbol.definitions[d])]
                    top == MostCommon(types)
                IN TypeInfo(types[top].type_name,
                            Frac(TypeCount(types, top), Len(types)).v)

\* SymbolTable._infer_types: every scope in order, every symbol in dict order
RECURSIVE infer_types(_, _, _, _)
infer_types(tb, h, s, i) ==
    IF s > Len(tb.scopes) THEN tb
    ELSE IF i > Len(tb.scopes[s].symbols) THEN infer_types(tb, h, s + 1, 1)
    ELSE The({infer_types(tb1, h, s, i + 1) :
                 tb1 \in {IF tb.scopes[s].symbols[i].type_info # NoType THEN tb
                          ELSE [tb EXCEPT !.scopes[s].symbols[i].type_info =
                                            infer_symbol_type(tb, h, s, i)]}})

\* SymbolTable.analyze
SymbolTable_analyze(tb, h, tree) == infer_types(analyze_node(tb, h, tree), h, 1, 1)

(***************************************************************************)
(* Matcher (matcher.py).  A Python string that the code takes apart (a     *)
(* query) is the sequence of its characters; a pattern instance is a       *)
(* record holding its class and its constructor arguments.                 *)
(***************************************************************************)
\* a query string as a pattern argument
Query(chars) == [k |-> "str", v |-> chars]

NamePattern(name, regex) ==
    [k |-> "pattern", cls |-> "NamePattern", name |-> name, regex |-> regex]
CallPattern(func_name, func_regex) ==
    [k |-> "pattern", cls |-> "CallPattern", func_name |-> func_name,
     func_regex |-> func_regex, args_count |-> NoneVal, min_args |-> NoneVal,
     max_args |-> NoneVal]
AssignPattern(target_name, target_regex, value_type) ==
    [k |-> "pattern", cls |-> "AssignPattern", target_name |-> target_name,
     target_regex |-> target_regex, value_type |-> value_type]
WildcardPattern == [k |-> "pattern", cls |-> "WildcardPattern", capture_name |-> "_"]

\* str(chars): the string with these characters
RECURSIVE StrOf(_)
StrOf(chars) == IF chars = <<>> THEN "" ELSE Head(chars) \o StrOf(Tail(chars))

Whitespace == {" ", "\t", "\n"}

\* str.strip()
RECURSIVE LStrip(_)
LStrip(s) == IF s # <<>> /\ Head(s) \in Whitespace THEN LStrip(Tail(s)) ELSE s
RECURSIVE RStrip(_)
RStrip(s) ==
    IF s # <<>> /\ s[Len(s)] \in Whitespace THEN RStrip(SubSeq(s, 1, Len(s) - 1))
    ELSE s
Strip(s) == RStrip(LStrip(s))

\* str.startswith / str.endswith / s[i:] / s[1:-1] (i counts from 0)
StartsWith(s, prefix) ==
    Len(s) >= Len(prefix) /\ SubSeq(s, 1, Len(prefix)) = prefix
EndsWith(s, suffix) ==
    Len(s) >= Len(suffix) /\ SubSeq(s, Len(s) - Len(suffix) + 1, Len(s)) = suffix
From(s, i) == SubSeq(s, i + 1, Len(s))
Inner(s) == SubSeq(s, 2, Len(s) - 1)

\* re.compile(regex) if regex else None
Compile(regex) == IF regex = <<>> THEN NoneVal ELSE Query(regex)

\* the identifiers of the modelled programs
Identifiers == {"a", "b", "f", "x", "y"}

\* regex.match(s) for a regex without metacharacters: s starts with the regex
RegexMatch(regex, s) ==
    \E rest \in Identifiers \cup {""} : StrOf(regex.v) \o rest = s

\* QueryLanguage.parse_query: the pattern, or the MatchError it raises
IsRegex(arg) == StartsWith(arg, <<"/">>) /\ EndsWith(arg, <<"/">>)
parse_query(query) ==
    LET q == Strip(query) IN
    IF StartsWith(q, <<"c", "a", "l", "l", " ">>)
    THEN LET func_name == Strip(From(q, 5)) IN
         [err |-> NoErr,
          pattern |-> IF IsRegex(func_name)
                      THEN CallPattern(NoneVal, Compile(Inner(func_name)))
                      ELSE CallPattern(Str(StrOf(func_name)), NoneVal)]
    ELSE IF StartsWith(q, <<"a", "s", "s", "i", "g", "n", " ">>)
    THEN LET var_name == Strip(From(q, 7)) IN
         [err |-> NoErr,
          pattern |-> IF IsRegex(var_name)
                      THEN AssignPattern(NoneVal, Compile(Inner(var_name)), NoneVal)
                      ELSE AssignPattern(Str(StrOf(var_name)), NoneVal, NoneVal)]
    ELSE IF StartsWith(q, <<"n", "a", "m", "e", " ">>)
    THEN LET name == Strip(From(q, 5)) IN
         [err |-> NoErr,
          pattern |-> IF IsRegex(name)
                      THEN NamePattern(NoneVal, Compile(Inner(name)))
                      ELSE NamePattern(Str(StrOf(name)), NoneVal)]
    ELSE IF q = <<"*">>
    THEN [err |-> NoErr, pattern |-> WildcardPattern]
    ELSE [err |-> Err("MatchError", "", "", "Invalid query pattern"),
          pattern |-> NoneVal]

\* NamePattern.match
NamePattern_match(h, p, n) ==
    /\ IsInstance(h, n, "Name")
    /\ ~(p.name # NoneVal /\ h[n].a.id # p.name)
    /\ ~(p.regex # NoneVal /\ ~RegexMatch(p.regex, h[n].a.id.v))

\* CallPattern.match
CallPattern_match(h, p, n) ==
    /\ IsInstance(h, n, "Call")
    /\ p.func_name # NoneVal =>
          /\ IsNode(h[n].a.func) /\ IsInstance(h, h[n].a.func.v, "Name")
          /\ h[h[n].a.func.v].a.id = p.func_name
    /\ p.func_regex # NoneVal =>
          /\ IsNode(h[n].a.func) /\ IsInstance(h, h[n].a.func.v, "Name")
          /\ RegexMatch(p.func_regex, h[h[n].a.func.v].a.id.v)
    /\ p.args_count # NoneVal => Len(h[n].a.args.v) = p.args_count.v
    /\ ~(p.min_args # NoneVal /\ Len(h[n].a.args.v) < p.min_args.v)
    /\ ~(p.max_args # NoneVal /\ Len(h[n].a.args.v) > p.max_args.v)

\* AssignPattern.match: with a target name or regex, only targets[0] is looked at
AssignPattern_match(h, p, n) ==
    /\ IsInstance(h, n, "Assign")
    /\ (p.target_name # NoneVal \/ p.target_regex # NoneVal) =>
          /\ h[n].a.targets.v # <<>>
          /\ LET target == h[n].a.targets.v[1] IN
             /\ IsInstance(h, target, "Name")
             /\ ~(/\ p.target_name # NoneVal /\ p.target_name.v # ""
                  /\ h[target].a.id # p.target_name)
             /\ ~(/\ p.target_regex # NoneVal
                  /\ ~RegexMatch(p.target_regex, h[target].a.id.v))
    /\ ~(/\ p.value_type # NoneVal /\ IsNode(h[n].a.value)
         /\ h[h[n].a.value.v].node_type # p.value_type.v)

\* pattern.match(node)
Pattern_match(h, p, n) ==
    CASE p.cls = "NamePattern" -> NamePattern_match(h, p, n)
      [] p.cls = "CallPattern" -> CallPattern_match(h, p, n)
      [] p.cls = "AssignPattern" -> AssignPattern_match(h, p, n)
      [] p.cls = "WildcardPattern" -> TRUE

\* the attributes the matcher's walks descend into, in the order of the code,
\* and whether the code expects a list there
MatcherAttrs ==
    <<<<"body", TRUE>>, <<"value", FALSE>>, <<"left", FALSE>>, <<"right", FALSE>>,
      <<"func", FALSE>>, <<"test", FALSE>>, <<"target", FALSE>>, <<"iter", FALSE>>,
      <<"targets", TRUE>>, <<"args", TRUE>>, <<"orelse", TRUE>>,
      <<"handlers", TRUE>>, <<"finalbody", TRUE>>>>

\* Matcher._traverse_and_match: found is the list matches, appended to in place
RECURSIVE traverse_and_match(_, _, _, _)
RECURSIVE MatchList(_, _, _, _, _)
RECURSIVE MatchAttrs(_, _, _, _, _)
MatchList(h, val, i, p, found) ==
    IF i > Len(val.v) THEN found
    ELSE The({MatchList(h, val, i + 1, p, found1) :
              found1 \in {IF ItemIsNode(val, i)
                          THEN traverse_and_match(h, val.v[i], p, found)
                          ELSE found}})

MatchAttrs(h, n, attrs, p, found) ==
    IF attrs = <<>> THEN found
    ELSE LET isList == Head(attrs)[2]
             val == h[n].a[Head(attrs)[1]]
         IN The({MatchAttrs(h, n, Tail(attrs), p, found1) :
                 found1 \in {IF isList /\ IsList(val) THEN MatchList(h, val, 1, p, found)
                             ELSE IF ~isList /\ IsNode(val)
                             THEN traverse_and_match(h, val.v, p, found)
                             ELSE found}})

traverse_and_match(h, n, p, found) ==
    The({MatchAttrs(h, n, ProbedAttrs(MatcherAttrs, h[n]), p, found1) :
         found1 \in {IF Pattern_match(h, p, n) THEN Append(found, n) ELSE found}})

\* a query function: lambda node: isinstance(node, cls)
IsInstanceOf(cls) == [k |-> "function", cls |-> cls]

\* Matcher._traverse_and_query
RECURSIVE traverse_and_query(_, _, _, _)
RECURSIVE QueryList(_, _, _, _, _)
RECURSIVE QueryAttrs(_, _, _, _, _)
QueryList(h, val, i, query_func, found) ==
    IF i > Len(val.v) THEN found
    ELSE The({QueryList(h, val, i + 1, query_func, found1) :
              found1 \in {IF ItemIsNode(val, i)
                          THEN traverse_and_query(h, val.v[i], query_func, found)
                          ELSE found}})

QueryAttrs(h, n, attrs, query_func, found) ==
    IF attrs = <<>> THEN found
    ELSE LET isList == Head(attrs)[2]
             val == h[n].a[Head(attrs)[1]]
         IN The({QueryAttrs(h, n, Tail(attrs), query_func, found1) :
                 found1 \in {IF isList /\ IsList(val)
                             THEN QueryList(h, val, 1, query_func, found)
                             ELSE IF ~isList /\ IsNode(val)
                             THEN traverse_and_query(h, val.v, query_func, found)
                             ELSE found}})

traverse_and_query(h, n, query_func, found) ==
    The({QueryAttrs(h, n, ProbedAttrs(MatcherAttrs, h[n]), query_func, found1) :
         found1 \in {IF IsInstance(h, n, query_func.cls) THEN Append(found, n)
                     ELSE found}})

\* Matcher.query
Matcher_query(h, tree, query_func) == traverse_and_query(h, tree, query_func, <<>>)

\* the Matcher after construction: an empty registry (name, pattern pairs)
Matcher == [patterns |-> <<>>, query |-> NoneVal, found |-> <<>>]

Registered(m, name) == \E i \in DOMAIN m.patterns : m.patterns[i][1] = name
Lookup(m, name) ==
    m.patterns[CHOOSE i \in DOMAIN m.patterns : m.patterns[i][1] = name][2]

\* Matcher.register_pattern: self.patterns[name] = pattern
Matcher_register_pattern(m, name, pattern) ==
    IF Registered(m, name)
    THEN [m EXCEPT !.patterns[CHOOSE i \in DOMAIN m.patterns :
                                  m.patterns[i][1] = name][2] = pattern]
    ELSE [m EXCEPT !.patterns = Append(@, <<name, pattern>>)]

\* a find_matches that compiles the string first and looks it up second
FindMatchesQueryFirst(m, h, tree, pattern) ==
    LET compiled == IF pattern.k # "str" THEN [err |-> NoErr, pattern |-> pattern]
                    ELSE IF ~parse_query(pattern.v).err.raised
                    THEN parse_query(pattern.v)
                    ELSE IF Registered(m, pattern.v)
                    THEN [err |-> NoErr, pattern |-> Lookup(m, pattern.v)]
                    ELSE parse_query(pattern.v)
    IN IF compiled.err.raised
       THEN [err |-> Err("MatchError", "", "", StrOf(pattern.v)), found |-> <<>>]
       ELSE [err |-> NoErr,
             found |-> traverse_and_match(h, tree, compiled.pattern, <<>>)]

\* Matcher.find_matches: the returned list, or the MatchError raised, whose
\* message quotes the string: "Pattern '<string>' not registered and invalid
\* query: ..."
Matcher_find_matches(m, h, tree, pattern) ==
    LET compiled == IF pattern.k # "str" THEN [err |-> NoErr, pattern |-> pattern]
                    ELSE IF Registered(m, pattern.v)
                    THEN [err |-> NoErr, pattern |-> Lookup(m, pattern.v)]
                    ELSE parse_query(pattern.v)
    IN IF compiled.err.raised
       THEN [err |-> Err("MatchError", "", "", StrOf(pattern.v)), found |-> <<>>]
       ELSE [err |-> NoErr,
             found |-> traverse_and_match(h, tree, compiled.pattern, <<>>)]

\* Matcher.find_assignments
Matcher_find_assignments(m, h, tree, var_name) ==
    IF var_name # NoneVal /\ var_name.v # ""
    THEN Matcher_find_matches(m, h, tree, AssignPattern(var_name, NoneVal, NoneVal))
    ELSE [err |-> NoErr, found |-> Matcher_query(h, tree, IsInstanceOf("Assign"))]

(***************************************************************************)
(* Serializer (serializer.py).  A dict of the exchange document is a       *)
(* function from its keys to tagged values.  The encoder keys its dicts by *)
(* the identity of the node they were made from, so the document is a map  *)
(* results from node identities to dicts; a child slot of a dict holds the *)
(* placeholder string "__NODE_REF__<id>" (Ref) until it is patched to the  *)
(* dict itself (DictRef).                                                  *)
(***************************************************************************)
Position(line, column, offset) ==
    [k |-> "position", v |-> [line |-> line, column |-> column, offset |-> offset]]

Ref(id) == [k |-> "ref", v |-> id]
DictRef(id) == [k |-> "dict", v |-> id]

SetKey(d, key, val) == [x \in DOMAIN d \cup {key} |-> IF x = key THEN val ELSE d[x]]

NODE_ATTRIBUTES(t) ==
    CASE t = "Program" -> [single_nodes |-> <<>>, node_lists |-> <<"body">>]
      [] t = "FunctionDef" ->
           [single_nodes |-> <<>>, node_lists |-> <<"body", "decorator_list">>]
      [] t = "ClassDef" ->
           [single_nodes |-> <<>>, node_lists |-> <<"bases", "body", "decorator_list">>]
      [] t = "Assign" -> [single_nodes |-> <<"value">>, node_lists |-> <<"targets">>]
      [] t = "BinOp" -> [single_nodes |-> <<"left", "right">>, node_lists |-> <<>>]
      [] t = "Call" -> [single_nodes |-> <<"func">>, node_lists |-> <<"args">>]
      [] t = "Attribute" -> [single_nodes |-> <<"value">>, node_lists |-> <<>>]
      [] t \in {"If", "While"} ->
           [single_nodes |-> <<"test">>, node_lists |-> <<"body", "orelse">>]
      [] t = "For" ->
           [single_nodes |-> <<"target", "iter">>, node_lists |-> <<"body", "orelse">>]
      [] t \in {"Return", "Expr"} -> [single_nodes |-> <<"value">>, node_lists |-> <<>>]
      [] t = "Try" ->
           [single_nodes |-> <<>>,
            node_lists |-> <<"body", "handlers", "orelse", "finalbody">>]
      [] t = "ExceptHandler" -> [single_nodes |-> <<"type">>, node_lists |-> <<"body">>]
      [] t = "With" -> [single_nodes |-> <<>>, node_lists |-> <<"body">>]
      [] t = "Raise" -> [single_nodes |-> <<"exc", "cause">>, node_lists |-> <<>>]
      [] t = "Assert" -> [single_nodes |-> <<"test", "msg">>, node_lists |-> <<>>]
      [] OTHER -> [single_nodes |-> <<>>, node_lists |-> <<>>]

\* the attribute names the patch loops try on every dict and every node
SingleNodeAttrs ==
    UNION {{NODE_ATTRIBUTES(t).single_nodes[i] :
               i \in DOMAIN NODE_ATTRIBUTES(t).single_nodes} : t \in NodeType}
NodeListAttrs ==
    UNION {{NODE_ATTRIBUTES(t).node_lists[i] :
               i \in DOMAIN NODE_ATTRIBUTES(t).node_lists} : t \in NodeType}

\* Node.to_dict: the base fields; the position only when there is one
Node_to_dict(node) ==
    LET result ==
          [key \in {"type", "leading_comments", "trailing_comments", "extra"} |->
             CASE key = "type" -> Str(node.node_type)
               [] key = "leading_comments" -> StrList(node.leading_comments)
               [] key = "trailing_comments" -> StrList(node.trailing_comments)
               [] key = "extra" -> [k |-> "extra", v |-> node.extra]]
    IN IF node.position.k # "none"
       THEN SetKey(result, "position", [k |-> "posdict", v |-> node.position.v])
       ELSE result

\* the loop over attrs['single_nodes'] for the node n; st is [queue, result]
RECURSIVE EncodeSingles(_, _, _, _)
EncodeSingles(h, n, attrs, st) ==
    IF attrs = <<>> THEN st
    ELSE LET attr_name == Head(attrs)
             attr_value == h[n].a[attr_name]
         IN The({EncodeSingles(h, n, Tail(attrs), st1) :
                 st1 \in {IF ~HasAttr(h[n], attr_name) THEN st
                          ELSE IF IsNode(attr_value)
                          THEN [queue |-> Append(st.queue, attr_value.v),
                                result |-> SetKey(st.result, attr_name,
                                                  Ref(attr_value.v))]
                          ELSE [st EXCEPT !.result = SetKey(@, attr_name, attr_value)]}})

\* the loop over attrs['node_lists']
RECURSIVE EncodeLists(_, _, _, _)
EncodeLists(h, n, attrs, st) ==
    IF attrs = <<>> THEN st
    ELSE LET attr_name == Head(attrs)
             attr_value == h[n].a[attr_name]
         IN The({EncodeLists(h, n, Tail(attrs), st1) :
                 st1 \in {IF ~HasAttr(h[n], attr_name) THEN st
                          ELSE IF attr_value.k = "list"
                          THEN [queue |-> st.queue \o
                                          SelectSeq(attr_value.v, LAMBDA item : item # 0),
                                result |->
                                  SetKey(st.result, attr_name,
                                         [k |-> "list",
                                          v |-> [i \in DOMAIN attr_value.v |->
                                                   IF ItemIsNode(attr_value, i)
                                                   THEN Ref(attr_value.v[i])
                                                   ELSE NoneVal]])]
                          ELSE [st EXCEPT !.result = SetKey(@, attr_name, attr_value)]}})

\* the while loop of _node_to_dict; st is [queue, results, trace], where trace
\* lists the nodes in the order they were taken from the queue and converted
RECURSIVE EncodeLoop(_, _)
EncodeLoop(h, st) ==
    IF st.queue = <<>> THEN st
    ELSE LET current_node == Head(st.queue)
             attrs == NODE_ATTRIBUTES(h[current_node].node_type)
         IN The({EncodeLoop(h, [queue |-> r.queue,
                                results |-> SetKey(st.results, current_node, r.result),
                                trace |-> Append(st.trace, current_node)]) :
                 r \in {EncodeLists(h, current_node, attrs.node_lists,
                          EncodeSingles(h, current_node, attrs.single_nodes,
                                        [queue |-> Tail(st.queue),
                                         result |-> Node_to_dict(h[current_node])]))}})

\* the two patch loops of _node_to_dict on one value of a dict
PatchDictValue(results, key, val) ==
    IF key \in SingleNodeAttrs /\ val.k = "ref" /\ val.v \in DOMAIN results
    THEN DictRef(val.v)
    ELSE IF key \in NodeListAttrs /\ val.k = "list"
    THEN [val EXCEPT !.v = [i \in DOMAIN val.v |->
                              IF val.v[i].k = "ref" /\ val.v[i].v \in DOMAIN results
                              THEN DictRef(val.v[i].v) ELSE val.v[i]]]
    ELSE val

\* Serializer._node_to_dict: the document (results, root dict) and the trace
Serializer_node_to_dict(h, node) ==
    IF node = 0 THEN [results |-> <<>>, doc |-> 0, trace |-> <<>>]
    ELSE The({[results |-> [id \in DOMAIN st.results |->
                              [key \in DOMAIN st.results[id] |->
                                 PatchDictValue(st.results, key, st.results[id][key])]],
               doc |-> node,
               trace |-> st.trace] :
              st \in {EncodeLoop(h, [queue |-> <<node>>, results |-> <<>>,
                                     trace |-> <<>>])}})

\* Node.from_dict: the node built from a dict, or the exception raised
Node_from_dict(data) ==
    IF "type" \notin DOMAIN data
    THEN \* data["type"]
         [err |-> Err("KeyError", "", "", "type"), node |-> NoneVal]
    ELSE
    LET node_class == NODE_CLASSES(data["type"].v)
        node_data == DOMAIN data \ {"type", "leading_comments", "trailing_comments",
                                    "extra", "position"}
    IN IF ~(node_data \subseteq DOMAIN node_class.a)
       THEN [err |-> Err("TypeError", "", "", "unexpected keyword argument"),
             node |-> NoneVal]
       ELSE [err |-> NoErr,
             node |-> [node_type |-> data["type"].v,
                       a |-> [attr \in DOMAIN node_class.a |->
                                IF attr \in node_data THEN data[attr]
                                ELSE node_class.a[attr]],
                       position |-> IF "position" \in DOMAIN data
                                    THEN [k |-> "position", v |-> data["position"].v]
                                    ELSE NoneVal,
                       leading_comments |-> data["leading_comments"].v,
                       trailing_comments |-> data["trailing_comments"].v,
                       extra |-> data["extra"].v]]

\* the loops of _node_from_dict that put placeholders into the copy of a dict
\* and queue its child dicts; st is [queue, data_copy]
RECURSIVE DecodeSingles(_, _)
DecodeSingles(attrs, st) ==
    IF attrs = <<>> THEN st
    ELSE LET attr_name == Head(attrs) IN
         The({DecodeSingles(Tail(attrs), st1) :
              st1 \in {IF attr_name \in DOMAIN st.data_copy
                          /\ st.data_copy[attr_name].k = "dict"
                       THEN [queue |-> Append(st.queue, st.data_copy[attr_name].v),
                             data_copy |-> [st.data_copy EXCEPT
                                              ![attr_name] = Ref(@.v)]]
                       ELSE st}})

DictItems(val) == SelectSeq(val.v, LAMBDA item : item.k = "dict")

RECURSIVE DecodeLists(_, _)
DecodeLists(attrs, st) ==
    IF attrs = <<>> THEN st
    ELSE LET attr_name == Head(attrs) IN
         The({DecodeLists(Tail(attrs), st1) :
              st1 \in {IF attr_name \in DOMAIN st.data_copy
                          /\ st.data_copy[attr_name].k = "list"
                       THEN [queue |-> st.queue \o
                                       [i \in DOMAIN DictItems(st.data_copy[attr_name]) |->
                                          DictItems(st.data_copy[attr_name])[i].v],
                             data_copy |->
                               [st.data_copy EXCEPT ![attr_name].v =
                                  [i \in DOMAIN st.data_copy[attr_name].v |->
                                     IF st.data_copy[attr_name].v[i].k = "dict"
                                     THEN Ref(st.data_copy[attr_name].v[i].v)
                                     ELSE st.data_copy[attr_name].v[i]]]]
                       ELSE st}})

\* NodeType(value): the value names a member of the enumeration
IsNodeType(val) == val.k = "str" /\ val.v \in NodeType

\* data_copy.get("type", "Program")
DataType(data) == IF "type" \in DOMAIN data THEN data["type"] ELSE Str("Program")

\* the while loop of _node_from_dict over the document D; st is
\* [heap, queue, results, err], results mapping a dict to the node made from it
RECURSIVE DecodeLoop(_, _)
DecodeLoop(D, st) ==
    IF st.queue = <<>> \/ st.err.raised THEN st
    ELSE LET current_data == Head(st.queue) IN
         IF ~IsNodeType(DataType(D[current_data]))
         THEN [st EXCEPT !.err = Err("ValueError", "", "", "not a valid NodeType")]
         ELSE The({DecodeLoop(D, st1) :
                   st1 \in {LET attrs == NODE_ATTRIBUTES(DataType(D[current_data]).v)
                                r == DecodeLists(attrs.node_lists,
                                       DecodeSingles(attrs.single_nodes,
                                                     [queue |-> Tail(st.queue),
                                                      data_copy |-> D[current_data]]))
                                made == Node_from_dict(r.data_copy)
                            IN IF made.err.raised THEN [st EXCEPT !.err = made.err]
                               ELSE [heap |-> Append(st.heap, made.node),
                                     queue |-> r.queue,
                                     results |-> SetKey(st.results, current_data,
                                                        Len(st.heap) + 1),
                                     err |-> NoErr]}})

\* the two patch loops of _node_from_dict on one attribute of a node: a
\* placeholder becomes the node reference, a patched list a list of nodes
PatchNodeValue(results, attr, val) ==
    IF attr \in SingleNodeAttrs /\ val.k = "ref" /\ val.v \in DOMAIN results
    THEN NodeRef(results[val.v])
    ELSE IF attr \in NodeListAttrs /\ val.k = "list"
    THEN NodeList([i \in DOMAIN val.v |->
                     IF val.v[i].k = "ref" /\ val.v[i].v \in DOMAIN results
                     THEN results[val.v[i].v] ELSE 0])
    ELSE val

\* Serializer._node_from_dict: the heap with the new nodes and the root node
Serializer_node_from_dict(h, D, data) ==
    The({IF st.err.raised THEN [heap |-> h, node |-> 0, err |-> st.err]
            ELSE [heap |-> [id \in DOMAIN st.heap |->
                              IF \E d \in DOMAIN st.results : st.results[d] = id
                              THEN [st.heap[id] EXCEPT !.a =
                                      [attr \in DOMAIN st.heap[id].a |->
                                         PatchNodeValue(st.results, attr,
                                                        st.heap[id].a[attr])]]
                              ELSE st.heap[id]],
                  node |-> st.results[data],
                  err |-> NoErr] :
            st \in {DecodeLoop(D, [heap |-> h, queue |-> <<data>>, results |-> <<>>,
                                   err |-> NoErr])}})

\* no document has been made yet
Serializer == [results |-> <<>>, doc |-> 0, trace |-> <<>>, decoded |-> 0]

(***************************************************************************)
(* The state machine.  The front-end hands over a tree; the components are *)
(* constructed empty; each action is one call of the library surface.      *)
(***************************************************************************)
MaxRuns == 2       \* Transformer.transform calls per behaviour
MaxPasses == 2     \* passes registered with one Transformer
MaxPatterns == 1   \* patterns registered with one Matcher
MaxVal == 2        \* integer literals of the arithmetic programs are -1..MaxVal

NoOutcome == [op |-> "init", err |-> NoErr, log |-> <<>>]

\* the state after construction, for the tree at node tree of heap h
InitHeap(h, tree) ==
    /\ heap = h
    /\ root = tree
    /\ src_tree = Struct(h, tree)
    /\ prev_tree = Struct(h, tree)
    /\ prev_heap = h
    /\ passes = <<>>
    /\ runs = 0
    /\ outcome = NoOutcome
    /\ table = SymbolTable
    /\ matches = Matcher
    /\ ser = Serializer

\* the state after construction, for the tree of term prog
InitTree(prog) == \E r \in {Load(<<>>, prog)} : InitHeap(r.heap, r.id)

\* Transformer.add_pass
add_pass(pass_instance) ==
    /\ Len(passes) < MaxPasses
    /\ runs = 0
    /\ passes' = Append(passes, pass_instance)
    /\ UNCHANGED <<heap, root, src_tree, prev_tree, prev_heap, runs, outcome,
                   table, matches, ser>>

\* table.analyze(tree)
analyze ==
    /\ runs < MaxRuns
    /\ table' = SymbolTable_analyze(table, heap, root)
    /\ outcome' = [op |-> "analyze", err |-> NoErr, log |-> <<>>]
    /\ runs' = runs + 1
    /\ UNCHANGED <<heap, root, src_tree, prev_tree, prev_heap, passes, matches, ser>>

\* tree = transformer.transform(tree): an exception leaves tree as it was
transform ==
    /\ runs < MaxRuns
    /\ passes # <<>>
    /\ ~outcome.err.raised
    /\ \E r \in {Transformer_transform(heap, passes, root)} :
       /\ heap' = r.heap
       /\ passes' = r.passes
       /\ root' = IF r.err.raised THEN root ELSE r.tree
       /\ outcome' = [op |-> "transform", err |-> r.err, log |-> r.log]
    /\ prev_tree' = Struct(heap, root)
    /\ prev_heap' = heap
    /\ runs' = runs + 1
    /\ UNCHANGED <<src_tree, table, matches, ser>>

\* matcher.register_pattern(name, pattern)
register_pattern(name, pattern) ==
    /\ Len(matches.patterns) < MaxPatterns
    /\ matches' = Matcher_register_pattern(matches, name, pattern)
    /\ UNCHANGED <<heap, root, src_tree, prev_tree, prev_heap, passes, runs,
                   outcome, table, ser>>

\* found = matcher.find_matches(tree, pattern)
find_matches(pattern) ==
    /\ runs < MaxRuns
    /\ \E r \in {Matcher_find_matches(matches, heap, root, pattern)} :
       /\ matches' = [matches EXCEPT !.query = pattern,
                                     !.found = IF r.err.raised THEN @ ELSE r.found]
       /\ outcome' = [op |-> "find_matches", err |-> r.err, log |-> <<>>]
    /\ runs' = runs + 1
    /\ UNCHANGED <<heap, root, src_tree, prev_tree, prev_heap, passes, table, ser>>

\* found = matcher.find_assignments(tree, var_name)
find_assignments(var_name) ==
    /\ runs < MaxRuns
    /\ \E r \in {Matcher_find_assignments(matches, heap, root, var_name)} :
       /\ matches' = [matches EXCEPT !.query = var_name,
                                     !.found = IF r.err.raised THEN @ ELSE r.found]
       /\ outcome' = [op |-> "find_assignments", err |-> r.err, log |-> <<>>]
    /\ runs' = runs + 1
    /\ UNCHANGED <<heap, root, src_tree, prev_tree, prev_heap, passes, table, ser>>

\* document = Serializer._node_to_dict(tree)
node_to_dict ==
    /\ runs < MaxRuns
    /\ \E r \in {Serializer_node_to_dict(heap, root)} :
          ser' = [ser EXCEPT !.results = r.results, !.doc = r.doc, !.trace = r.trace]
    /\ outcome' = [op |-> "node_to_dict", err |-> NoErr, log |-> <<>>]
    /\ runs' = runs + 1
    /\ UNCHANGED <<heap, root, src_tree, prev_tree, prev_heap, passes, table, matches>>

\* decoded = Serializer._node_from_dict(document)
node_from_dict ==
    /\ runs < MaxRuns
    /\ ser.doc # 0
    /\ \E r \in {Serializer_node_from_dict(heap, ser.results, ser.doc)} :
       /\ heap' = r.heap
       /\ ser' = [ser EXCEPT !.decoded = r.node]
       /\ outcome' = [op |-> "node_from_dict", err |-> r.err, log |-> <<>>]
    /\ prev_heap' = heap
    /\ runs' = runs + 1
    /\ UNCHANGED <<root, src_tree, prev_tree, passes, table, matches>>

(***************************************************************************)
(* Arithmetic programs: x = e, for e a literal, a name, a binary operation *)
(* of two leaves, or a binary operation with one nested operand.           *)
(***************************************************************************)
FoldOps == {"+", "-", "*", "/", "//", "%", "**", "@"}
NestedOps == {"+", "/", "@"}
FoldLits == {Constant(IntV(v), Str("int")) : v \in -MaxVal..MaxVal}
FoldLeaves == FoldLits \cup {Constant(NoneVal, Str("NoneType")), Name("y", "load")}
FoldFlat == {BinOp(l, op, r) : l \in FoldLeaves, op \in FoldOps, r \in FoldLeaves}
FoldInner == {BinOp(l, op, r) : l \in FoldLits, op \in NestedOps, r \in FoldLits}
FoldNested ==
    {BinOp(e, op, r) : e \in FoldInner, op \in NestedOps, r \in FoldLits}
    \cup {BinOp(l, op, e) : l \in FoldLits, op \in NestedOps, e \in FoldInner}
FoldPrograms ==
    {Program(<<Assign(<<Name("x", "store")>>, e)>>) : e \in FoldFlat \cup FoldNested}

InitFold == \E prog \in FoldPrograms : InitTree(prog)
NextFold == add_pass(ConstantFoldingPass) \/ transform
SpecFold == InitFold /\ [][NextFold]_vars

(***************************************************************************)
(* Properties of constant folding, checked under SpecFold.                 *)
(***************************************************************************)
\* one transform call has returned a tree, with only the folding pass registered
FoldedOnce == runs = 1 /\ passes = <<ConstantFoldingPass>> /\ ~outcome.err.raised

IsLiteral(h, val) == IsNode(val) /\ IsInstance(h, val.v, "Constant")
IntOperands(h, n) ==
    /\ IsLiteral(h, h[n].a.left) /\ h[h[n].a.left.v].a.value.k = "int"
    /\ IsLiteral(h, h[n].a.right) /\ h[h[n].a.right.v].a.value.k = "int"
LeftInt(h, n) == h[h[n].a.left.v].a.value.v
RightInt(h, n) == h[h[n].a.right.v].a.value.v

\* the child slots <<parent, attribute>> of h that hold node n
Slots(h, n) ==
    {sl \in (DOMAIN h) \X {"value", "left", "right"} :
        /\ HasAttr(h[sl[1]], sl[2])
        /\ h[sl[1]].a[sl[2]].k = "node"
        /\ h[sl[1]].a[sl[2]].v = n}

\* b ** e for the exponents 0..4 of the programs checked
Power(b, e) ==
    CASE e = 0 -> 1 [] e = 1 -> b [] e = 2 -> b * b [] e = 3 -> b * b * b
      [] e = 4 -> b * b * b * b

\* the remainders a division by r can leave: they have the sign of r
Remainders(r) == IF r > 0 THEN 0..(r - 1) ELSE (r + 1)..0

\* val is the result Python gives for l op r on the integers l and r
ArithResult(op, l, r, val) ==
    CASE op = "+" -> val = IntV(l + r)
      [] op = "-" -> val = IntV(l - r)
      [] op = "*" -> val = IntV(l * r)
      [] op = "/" -> val.k = "float" /\ val.v[2] > 0 /\ val.v[1] * r = l * val.v[2]
      [] op = "//" -> val.k = "int" /\ \E m \in Remainders(r) : val.v * r + m = l
      [] op = "%" -> /\ val.k = "int" /\ val.v \in Remainders(r)
                     /\ \E q \in -(Abs(l) + 1)..(Abs(l) + 1) : q * r + val.v = l
      [] op = "**" -> IF r >= 0 THEN val = IntV(Power(l, r))
                      ELSE /\ val.k = "float" /\ val.v[2] > 0
                           /\ val.v[1] * Power(l, -r) = val.v[2]

\* l op r has a value: no zero divisor, and not zero to a negative power
HasResult(op, l, r) ==
    /\ op \in {"/", "//", "%"} => r # 0
    /\ op = "**" => ~(l = 0 /\ r < 0)

\* every slot that held n now holds a literal with the value of l op r
Replaced(n) ==
    \A sl \in Slots(prev_heap, n) :
        /\ IsLiteral(heap, heap[sl[1]].a[sl[2]])
        /\ ArithResult(prev_heap[n].a.op.v, LeftInt(prev_heap, n), RightInt(prev_heap, n),
                       heap[heap[sl[1]].a[sl[2]].v].a.value)

\* every slot that held n still holds n, the same operation
Unchanged(n) ==
    /\ \A sl \in Slots(prev_heap, n) : heap[sl[1]].a[sl[2]] = NodeRef(n)
    /\ heap[n].node_type = "BinOp" /\ heap[n].a.op = prev_heap[n].a.op

\* after one folding run: the operations with an operator in ops and integer
\* literal operands are replaced by their result, those with another operator
\* are unchanged
FoldContract(ops) ==
    FoldedOnce =>
        \A n \in DOMAIN prev_heap :
            IsInstance(prev_heap, n, "BinOp") =>
                IF prev_heap[n].a.op.v \in ops
                THEN (/\ IntOperands(prev_heap, n)
                      /\ HasResult(prev_heap[n].a.op.v, LeftInt(prev_heap, n),
                                   RightInt(prev_heap, n)))
                         => Replaced(n)
                ELSE Unchanged(n)

\* C2: a second constant-folding run on the tree a first run produced changes
\* nothing: fold(fold(tree)) is structurally equal to fold(tree).
C2_FoldIdempotent ==
    (runs = 2 /\ passes = <<ConstantFoldingPass>> /\ ~outcome.err.raised)
        => Struct(heap, root) = prev_tree

\* a binary operation / // % of two literals whose right literal equals zero
ZeroDivisor(h, n) ==
    /\ IsInstance(h, n, "BinOp") /\ h[n].a.op.v \in {"/", "//", "%"}
    /\ IsLiteral(h, h[n].a.left) /\ IsLiteral(h, h[n].a.right)
    /\ PyEqZero(h[h[n].a.right.v].a.value)

\* C3: when the folding pass meets / // % with a literal zero right operand,
\* Transformer.transform fails with a TransformError; it never returns a tree
\* with that operation left in place.
C3_ZeroDivisorFails ==
    (/\ runs = 1 /\ passes = <<ConstantFoldingPass>>
     /\ \E n \in DOMAIN prev_heap : ZeroDivisor(prev_heap, n))
        => outcome.err.raised /\ outcome.err.kind = "TransformError"

\* C4 (as amended): a binary operation of two integer literals with operator
\* + - * / // % ** (no zero divisor, not zero to a negative power) is replaced
\* in its slot by one literal holding the arithmetic result; a binary
\* operation with an operator outside + - * / // % ** is unchanged.
C4_FoldsIntegerLiterals == FoldContract({"+", "-", "*", "/", "//", "%", "**"})

\* C4 (as stated): the same with the operators + - * // % **, so that a true
\* division counts as "any other operator" and is expected to be unchanged.
C4_AsStated == FoldContract({"+", "-", "*", "//", "%", "**"})

\* a floor division and a modulo with operands of opposite sign were folded
C4_Witness ==
    /\ FoldedOnce
    /\ \E n \in DOMAIN prev_heap :
          /\ IsInstance(prev_heap, n, "BinOp") /\ IntOperands(prev_heap, n)
          /\ prev_heap[n].a.op.v = "%"
          /\ LeftInt(prev_heap, n) < 0 /\ RightInt(prev_heap, n) > 1
          /\ Slots(prev_heap, n) # {} /\ Replaced(n)

(***************************************************************************)
(* The nodes of a tree: everything reachable from the root through any     *)
(* attribute that holds a node, a list of nodes or keyword dicts.          *)
(***************************************************************************)
ValNodes(val) ==
    CASE val.k = "node" -> {val.v}
      [] val.k = "list" -> {val.v[i] : i \in DOMAIN val.v} \ {0}
      [] val.k = "dicts" -> {val.v[i].value : i \in DOMAIN val.v} \ {0}
      [] OTHER -> {}

Children(h, n) == UNION {ValNodes(h[n].a[attr]) : attr \in DOMAIN h[n].a}

RECURSIVE Reach(_, _, _)
Reach(h, frontier, seen) ==
    IF frontier \subseteq seen THEN seen
    ELSE The({Reach(h, next, seen \cup frontier) :
                 next \in {UNION {Children(h, n) : n \in frontier \ seen}}})

TreeNodes(h, r) == IF r = 0 THEN {} ELSE Reach(h, {r}, {})

(***************************************************************************)
(* Programs with unreachable statements: a function f whose body is up to  *)
(* MaxBody statements, followed by nothing, a top-level assignment or a    *)
(* second function.                                                        *)
(***************************************************************************)
MaxBody == 2       \* statements in the body of f

AssignTo(id, v) == Assign(<<Name(id, "store")>>, Constant(IntV(v), Str("int")))
ReturnOne == Return(Constant(IntV(1), Str("int")))
DceStmts ==
    {ReturnOne, AssignTo("x", 2), Pass,
     If(Name("c", "load"), <<ReturnOne>>, <<AssignTo("x", 2)>>),
     While(Name("c", "load"), <<Break, AssignTo("x", 2)>>, <<>>)}
DceBodies == UNION {[1..n -> DceStmts] : n \in 1..MaxBody}
DceTails ==
    {<<>>, <<AssignTo("y", 3)>>,
     <<FunctionDef("g", <<>>, <<ReturnOne, AssignTo("x", 2)>>, <<>>)>>}
DcePrograms ==
    {Program(<<FunctionDef("f", <<>>, body, <<>>)>> \o tail) :
        body \in DceBodies, tail \in DceTails}

InitDce == \E prog \in DcePrograms : InitTree(prog)
NextDce == add_pass(DeadCodeEliminationPass) \/ transform
SpecDce == InitDce /\ [][NextDce]_vars

(***************************************************************************)
(* Properties of dead-code elimination, checked under SpecDce.             *)
(***************************************************************************)
\* a transform call with only dead-code passes registered has returned a tree
DceRan ==
    /\ outcome.op = "transform" /\ ~outcome.err.raised
    /\ \A i \in DOMAIN passes : passes[i].cls = "DeadCodeEliminationPass"

ListAttrs(node) == {attr \in DOMAIN node.a : node.a[attr].k \in {"list", "strs", "dicts"}}

\* every list of every node that existed before the run has kept its length
LengthsKept ==
    \A n \in DOMAIN prev_heap :
        \A attr \in ListAttrs(prev_heap[n]) :
            /\ heap[n].a[attr].k = prev_heap[n].a[attr].k
            /\ Len(heap[n].a[attr].v) = Len(prev_heap[n].a[attr].v)

\* in the body of function f, every slot after a return holds a Pass node
AfterReturnIsPass(f) ==
    \A j \in DOMAIN prev_heap[f].a.body.v :
        IsInstance(prev_heap, prev_heap[f].a.body.v[j], "Return") =>
            \A i \in (j + 1)..Len(prev_heap[f].a.body.v) :
                IsInstance(heap, heap[f].a.body.v[i], "Pass")

ExprName(id) == Expr(Name(id, "load"))
UvrReads(id) ==
    {Expr(Call(Name("use", "load"), <<Name(id, "load")>>, <<>>)),
     Expr(Call(Name("use", "load"), <<>>, <<[arg |-> "k", value |-> Name(id, "load")]>>)),
     If(Name("c", "load"), <<ExprName(id)>>, <<>>),
     If(Name("c", "load"), <<Pass>>, <<ExprName(id)>>),
     Try(<<Pass>>, <<ExceptHandler(NoneVal, "e", <<ExprName(id)>>)>>, <<>>, <<>>),
     Try(<<Pass>>, <<>>, <<>>, <<ExprName(id)>>)}
UvrPrograms ==
    {Program(<<AssignTo("x", 1)>> \o more \o <<u>>) :
        more \in {<<>>, <<AssignTo("y", 2)>>},
        u \in UNION {UvrReads(id) : id \in {"x", "y", "z"}}}

InitUvr == \E prog \in UvrPrograms : InitTree(prog)
NextUvr == add_pass(UnusedVariableRemovalPass) \/ transform
SpecUvr == InitUvr /\ [][NextUvr]_vars

(***************************************************************************)
(* Properties of unused-variable removal, checked under SpecUvr.           *)
(***************************************************************************)
\* the names read (a Name in load context) anywhere in the tree
ReadNames(h, r) ==
    {h[n].a.id.v : n \in {m \in TreeNodes(h, r) :
                            IsInstance(h, m, "Name") /\ h[m].a.ctx = Str("load")}}

\* the statement in slot i of the program was an assignment to one name
AssignsName(i) ==
    LET stmt == prev_heap[root].a.body.v[i] IN
    /\ IsInstance(prev_heap, stmt, "Assign")
    /\ Len(prev_heap[stmt].a.targets.v) = 1
    /\ IsInstance(prev_heap, prev_heap[stmt].a.targets.v[1], "Name")

\* C7: unused-variable removal keeps every assignment whose target name is
\* read anywhere in the tree (else branches, handlers, finally blocks and
\* keyword arguments included), and an assignment whose target is read nowhere
\* loses it and is replaced in its slot by its value expression.
C7_KeepsReadNames ==
    (runs = 1 /\ passes = <<UnusedVariableRemovalPass>> /\ ~outcome.err.raised) =>
        \A i \in DOMAIN prev_heap[root].a.body.v :
            AssignsName(i) =>
                LET stmt == prev_heap[root].a.body.v[i]
                    id == prev_heap[prev_heap[stmt].a.targets.v[1]].a.id.v
                IN IF id \in ReadNames(prev_heap, root)
                   THEN /\ heap[root].a.body.v[i] = stmt
                        /\ heap[stmt].a.targets = prev_heap[stmt].a.targets
                   ELSE heap[root].a.body.v[i] = prev_heap[stmt].a.value.v

(***************************************************************************)
(* Programs with scopes: an optional top-level statement about x, then a   *)
(* function f (with or without a parameter x) whose body, or the body of a *)
(* function inner nested in it, optionally declares x global and then      *)
(* assigns x, defines a function x or reads x.                             *)
(***************************************************************************)
SymTops == {<<>>, <<AssignTo("x", 0)>>, <<ExprName("x")>>, <<AssignTo("x", 0), ExprName("x")>>}
SymDecls == {<<>>, <<Global(<<"x">>)>>}
SymStmts == {AssignTo("x", 5), FunctionDef("x", <<>>, <<Pass>>, <<>>), ExprName("x")}
SymBodies ==
    {decl \o <<stmt>> : decl \in SymDecls, stmt \in SymStmts}
    \cup {<<FunctionDef("inner", <<>>, decl \o <<stmt>>, <<>>)>> :
             decl \in SymDecls, stmt \in SymStmts}
SymPrograms ==
    {Program(top \o <<FunctionDef("f", args, body, <<>>)>>) :
        top \in SymTops, args \in {<<>>, <<"x">>}, body \in SymBodies}

InitSym == \E prog \in SymPrograms : InitTree(prog)
NextSym == analyze
SpecSym == InitSym /\ [][NextSym]_vars

(***************************************************************************)
(* Properties of symbol analysis, checked under SpecSym.                   *)
(***************************************************************************)
Analyzed == outcome.op = "analyze"

Functions(h) == {f \in DOMAIN h : IsInstance(h, f, "FunctionDef")}
BodyOf(h, f) == {h[f].a.body.v[i] : i \in DOMAIN h[f].a.body.v}

\* the scope that analysis opened for function f (function names are unique)
FnScope(f) ==
    CHOOSE s \in DOMAIN table.scopes : table.scopes[s].name = "function_" \o heap[f].a.name.v

\* node is a definition site of the symbol name held by scope s
DefinedAt(s, name, node) ==
    LET i == SymIndex(table.scopes[s], name) IN
    /\ i # 0
    /\ \E d \in DOMAIN table.scopes[s].symbols[i].definitions :
          table.scopes[s].symbols[i].definitions[d] = node
UsedAt(s, name, node) ==
    LET i == SymIndex(table.scopes[s], name) IN
    /\ i # 0
    /\ \E u \in DOMAIN table.scopes[s].symbols[i].references :
          table.scopes[s].symbols[i].references[u] = node

\* statement d defines name: an assignment to it or a def of that name
Defines(d, name) ==
    \/ /\ IsInstance(heap, d, "Assign")
       /\ \E t \in DOMAIN heap[d].a.targets.v :
             /\ IsInstance(heap, heap[d].a.targets.v[t], "Name")
             /\ heap[heap[d].a.targets.v[t]].a.id.v = name
    \/ IsInstance(heap, d, "FunctionDef") /\ heap[d].a.name.v = name

\* C5: an assignment to n inside a function whose scope has no global
\* declaration for n is recorded on a symbol n of that function's own scope,
\* and the symbol n of every other scope keeps its definitions as they were.
C5_NestedAssignIsLocal ==
    Analyzed =>
        \A f \in Functions(heap) : \A d \in BodyOf(heap, f) :
            (/\ IsInstance(heap, d, "Assign") /\ Defines(d, "x")
             /\ "x" \notin table.scopes[FnScope(f)].globals)
                => /\ DefinedAt(FnScope(f), "x", d)
                   /\ \A s \in DOMAIN table.scopes \ {FnScope(f)} : ~DefinedAt(s, "x", d)

\* the top-level statements that define or read x
TopDefs == {d \in BodyOf(heap, root) : IsInstance(heap, d, "Assign") /\ Defines(d, "x")}
TopUses ==
    {heap[e].a.value.v : e \in {e \in BodyOf(heap, root) : IsInstance(heap, e, "Expr")}}

\* C6: after a scope has declared n global, a definition of n analyzed in that
\* scope is added to the root scope's symbol n, which keeps its earlier
\* definitions and uses, and to no symbol of another scope.
C6_GlobalDefinesAtRoot ==
    Analyzed =>
        \A f \in Functions(heap) : \A d \in BodyOf(heap, f) :
            (Defines(d, "x") /\ "x" \in table.scopes[FnScope(f)].globals)
                => /\ DefinedAt(1, "x", d)
                   /\ \A s \in DOMAIN table.scopes \ {1} : ~DefinedAt(s, "x", d)
                   /\ \A d0 \in TopDefs : DefinedAt(1, "x", d0)
                   /\ \A u \in TopUses : UsedAt(1, "x", u)

(***************************************************************************)
(* Programs with assignments: one or two statements, each a single-target  *)
(* or chained assignment, an assignment to an attribute, or a compound     *)
(* statement holding an assignment in one of its statement lists.          *)
(***************************************************************************)
One == Constant(IntV(1), Str("int"))

MatchSimple ==
    {Assign(<<Name("x", "store")>>, BinOp(One, "+", Constant(IntV(2), Str("int")))),
     Assign(<<Name("y", "store")>>,
            BinOp(Name("x", "load"), "*", Constant(IntV(3), Str("int")))),
     Assign(<<Name("a", "store"), Name("x", "store")>>, One),
     Assign(<<Attribute(Name("a", "load"), "x", "store")>>, Name("y", "load"))}

MatchCompound ==
    {If(Name("x", "load"), <<AssignTo("x", 1)>>, <<AssignTo("y", 2)>>),
     FunctionDef("f", <<"x">>, <<AssignTo("x", 1), Return(Name("x", "load"))>>, <<>>),
     For(Name("x", "store"), Name("y", "load"), <<AssignTo("y", 1)>>, <<>>),
     Try(<<AssignTo("x", 1)>>,
         <<ExceptHandler(Name("a", "load"), "b", <<AssignTo("y", 1)>>)>>,
         <<>>, <<AssignTo("x", 2)>>),
     Expr(Call(Name("f", "load"), <<Name("x", "load")>>, <<>>))}

MatchPrograms ==
    {Program(<<s>>) : s \in MatchSimple \cup MatchCompound}
    \cup {Program(<<s, t>>) : s \in MatchSimple, t \in MatchSimple \cup MatchCompound}

\* the query "assign <name>" for a one-letter name
AssignQuery(name) == Query(<<"a", "s", "s", "i", "g", "n", " ", name>>)

MatchQueries ==
    {AssignQuery(name) : name \in {"x", "y"}}
    \cup {Query(<<" ", "a", "s", "s", "i", "g", "n", " ", " ", "a", " ">>),
          Query(<<"a", "s", "s", "i", "g", "n", "x">>),
          Query(<<"a", "s", "s", "i", "g", "n", " ", "/", "x", "/">>),
          Query(<<"n", "a", "m", "e", " ", "x">>),
          Query(<<"c", "a", "l", "l", " ", "f">>),
          Query(<<"*">>),
          Query(<<"m", "y">>),
          AssignPattern(Str("x"), NoneVal, Str("Constant"))}

InitMatch == \E prog \in MatchPrograms : InitTree(prog)
NextMatch ==
    \/ \E name \in {<<"m", "y">>, AssignQuery("y").v} :
          register_pattern(name, WildcardPattern)
    \/ \E pattern \in MatchQueries : find_matches(pattern)
    \/ \E var_name \in {NoneVal, Str(""), Str("x"), Str("y")} :
          find_assignments(var_name)
SpecMatch == InitMatch /\ [][NextMatch]_vars

(***************************************************************************)
(* Properties of the matcher, checked under SpecMatch.                     *)
(***************************************************************************)
AssignNodes(h, r) == {n \in TreeNodes(h, r) : h[n].node_type = "Assign"}

\* assignment node n has the name among its targets
AssignsTo(h, n, name) ==
    \E i \in DOMAIN h[n].a.targets.v :
        /\ IsInstance(h, h[n].a.targets.v[i], "Name")
        /\ h[h[n].a.targets.v[i]].a.id = Str(name)

\* the list holds exactly the nodes of S, each once
ExactlyOnce(found, S) ==
    /\ \A i, j \in DOMAIN found : found[i] = found[j] => i = j
    /\ {found[i] : i \in DOMAIN found} = S

\* C9: find_matches(tree, "assign n") returns exactly the assignment nodes of
\* the tree that assign the name n, each once; find_assignments(tree) without
\* a name returns every assignment node of the tree, each once.
C9_AssignQueries ==
    /\ \A name \in Identifiers :
          (/\ outcome.op = "find_matches"
           /\ matches.query = AssignQuery(name)
           /\ ~Registered(matches, AssignQuery(name).v))
          => ExactlyOnce(matches.found,
                         {n \in AssignNodes(heap, root) : AssignsTo(heap, n, name)})
    /\ (outcome.op = "find_assignments" /\ matches.query = NoneVal)
          => ExactlyOnce(matches.found, AssignNodes(heap, root))

(***************************************************************************)
(* Trees for the serializer: one statement, or the same statement twice,   *)
(* over expressions with and without scalar attributes, positions and      *)
(* comments.  In a shared tree the two statements of the program are one   *)
(* object and the two equal operands of a binary operation are one object. *)
(***************************************************************************)
At(t, line) == [t EXCEPT !.position = Position(line, 0, 0)]
Commented(t) == [t EXCEPT !.leading_comments = <<"# before">>,
                          !.trailing_comments = <<"# after">>]

SerExprs ==
    {NoneVal, Name("x", "load"), At(Constant(IntV(1), Str("int")), 1),
     BinOp(Name("x", "load"), "+", Name("x", "load")),
     Call(Name("f", "load"), <<Name("x", "load")>>, <<>>)}
SerStmts ==
    {Pass, Commented(At(Pass, 2)), Break,
     FunctionDef("f", <<"a">>, <<Pass>>, <<>>),
     Try(<<Pass>>, <<ExceptHandler(NoneVal, "", <<Pass>>)>>, <<>>, <<Pass>>),
     Try(<<Pass>>, <<ExceptHandler(Name("E", "load"), "e", <<Pass>>)>>, <<>>, <<>>)}
    \cup {Return(e) : e \in SerExprs}
    \cup {At(Expr(e), 1) : e \in SerExprs}
    \cup {Assign(<<Name("y", "store")>>, e) : e \in SerExprs}
    \cup {If(e, <<Pass>>, <<Commented(Break)>>) : e \in SerExprs}
SerPrograms ==
    {Program(<<s>>) : s \in SerStmts} \cup {Program(<<s, s>>) : s \in SerStmts}

\* the heap in which equal siblings are one object
Shared(h) ==
    [id \in DOMAIN h |->
       IF h[id].node_type = "Program" /\ Len(h[id].a.body.v) = 2
       THEN [h[id] EXCEPT !.a.body.v[2] = h[id].a.body.v[1]]
       ELSE IF /\ h[id].node_type = "BinOp"
               /\ Struct(h, h[id].a.left.v) = Struct(h, h[id].a.right.v)
       THEN [h[id] EXCEPT !.a.right = h[id].a.left]
       ELSE h[id]]

InitSer ==
    \E prog \in SerPrograms, share \in BOOLEAN :
       \E r \in {Load(<<>>, prog)} :
          /\ share => Shared(r.heap) # r.heap
          /\ InitHeap(IF share THEN Shared(r.heap) ELSE r.heap, r.id)
NextSer == node_to_dict \/ node_from_dict
SpecSer == InitSer /\ [][NextSer]_vars

(***************************************************************************)
(* Properties of the serializer, checked under SpecSer.                    *)
(***************************************************************************)
\* C1: decoding the document encoded from a tree yields a tree whose nodes
\* have the tag, the attribute values (scalars, children and child lists),
\* the position and the comments of the corresponding nodes of the original.
C1_RoundTrip ==
    outcome.op = "node_from_dict"
    => /\ ~outcome.err.raised
       /\ Struct(heap, ser.decoded) = Struct(heap, root)

\* C10: the encoder takes every node from its queue and converts it at most
\* once, however many slots of the tree reference it.
C10_EncodedOnce ==
    outcome.op = "node_to_dict"
    => \A i, j \in DOMAIN ser.trace : ser.trace[i] = ser.trace[j] => i = j

(***************************************************************************)
(* Family Pipe: pipelines of different passes over programs that fold,     *)
(* that have dead code and unused names, and that make a pass raise.       *)
(***************************************************************************)
Num(v) == Constant(IntV(v), Str("int"))
PipeStmts ==
    {Assign(<<Name("x", "store")>>, BinOp(Num(1), "+", Num(2))),
     Assign(<<Name("y", "store")>>, BinOp(Num(0), "**", Num(0 - 1))),
     Expr(BinOp(Name("x", "load"), "*", BinOp(Num(2), "-", Num(1)))),
     ReturnOne,
     AssignTo("z", 2)}
PipeBodies == [1..2 -> PipeStmts]
PipeTails == {<<>>, <<Assign(<<Name("w", "store")>>, BinOp(Num(2), "*", Num(2)))>>}
PipePrograms ==
    {Program(<<FunctionDef("f", <<>>, body, <<>>)>> \o tail) :
        body \in PipeBodies, tail \in PipeTails}
PipePasses == {ConstantFoldingPass, DeadCodeEliminationPass, UnusedVariableRemovalPass}

InitPipe == \E prog \in PipePrograms : InitTree(prog)
NextPipe == (\E p \in PipePasses : add_pass(p)) \/ transform
SpecPipe == InitPipe /\ [][NextPipe]_vars

(***************************************************************************)
(* Properties of the pipeline, checked under SpecPipe.                     *)
(***************************************************************************)
Trace == outcome.log
Entries(kind) == {i \in DOMAIN Trace : Trace[i].kind = kind}
IndexesRun == {Trace[i].index : i \in Entries("transform")}

\* C11: the passes are applied strictly in registration order, each over the
\* whole tree before the next starts: in the trace of a transform run every
\* call and every assignment belongs to the pass registered at its index,
\* the indexes never decrease along the trace and skip no pass, and a run
\* that returns has run every registered pass.
C11_RegistrationOrder ==
    outcome.op = "transform" =>
        /\ \A i \in DOMAIN Trace :
              /\ Trace[i].index \in DOMAIN passes
              /\ Trace[i].pass_name = passes[Trace[i].index].name
        /\ \A i, j \in DOMAIN Trace : i < j => Trace[i].index <= Trace[j].index
        /\ \A k \in IndexesRun : 1..k \subseteq IndexesRun
        /\ ~outcome.err.raised => IndexesRun = DOMAIN passes

\* two passes of different classes have run, each with several calls
C11_Witness ==
    /\ outcome.op = "transform" /\ ~outcome.err.raised
    /\ Len(passes) = 2 /\ passes[1].cls # passes[2].cls
    /\ \A k \in 1..2 :
          Cardinality({i \in Entries("transform") : Trace[i].index = k}) > 2

\* the call that raised: the last transform call of the trace
Failing == Trace[CHOOSE i \in Entries("transform") :
                    \A j \in Entries("transform") : j <= i]
Writes == Entries("assign") \cup Entries("mutate")
\* the writes that no later write to the same attribute of the same node follows
LastWrites ==
    {i \in Writes : \A j \in Writes :
        (j > i) => (Trace[j].node # Trace[i].node \/ Trace[j].attr # Trace[i].attr)}
TransformFailed == outcome.op = "transform" /\ outcome.err.raised

\* C12: when a pass raises, transform raises a TransformError that names the
\* pass that raised and the tag of the node it was transforming, no pass
\* registered after it has made any call, and every
\* assignment made before the exception (by earlier passes or by the failing
\* pass) is still in place in the node objects.
C12_AbortKeepsMutations ==
    TransformFailed =>
        /\ outcome.err.kind = "TransformError"
        /\ outcome.err.pass_name = passes[Failing.index].name
        /\ outcome.err.node_type = heap[Failing.node].node_type
        /\ \A i \in DOMAIN Trace : Trace[i].index <= Failing.index
        /\ \A i \in LastWrites : heap[Trace[i].node].a[Trace[i].attr] = Trace[i].val

\* the second of two passes raised after the first had changed the tree and
\* after it had itself replaced an operation by its value
C12_Witness ==
    /\ TransformFailed
    /\ Len(passes) = 2 /\ Failing.index = 2
    /\ \E i \in Entries("mutate") :
          /\ Trace[i].index = 1
          /\ prev_heap[Trace[i].node].a[Trace[i].attr] # Trace[i].val
    /\ \E i \in Entries("assign") :
          /\ Trace[i].index = 2
          /\ Trace[i].val.k = "node"
          /\ Trace[i].val.v \notin DOMAIN prev_heap
          /\ heap[Trace[i].val.v].node_type = "Constant"

(***************************************************************************)
(* Family Dec: decoding of documents that come from outside: the encoding  *)
(* of a tree, as it is or with one object retagged, with the tag of one    *)
(* object removed, or with one child slot holding a placeholder string     *)
(* that names no object of the document.                                   *)
(***************************************************************************)
DecStmts ==
    {Pass, Return(NoneVal), Return(Name("x", "load")), Expr(Name("x", "load")),
     Assign(<<Name("y", "store")>>, Name("x", "load")),
     If(Name("x", "load"), <<Pass>>, <<Break>>)}
DecPrograms ==
    {Program(<<s>>) : s \in DecStmts} \cup {Program(<<s, t>>) : s, t \in DecStmts}

Retag(D, d, tag) == [D EXCEPT ![d] = SetKey(D[d], "type", Str(tag))]
Untag(D, d) == [D EXCEPT ![d] = [key \in DOMAIN D[d] \ {"type"} |-> D[d][key]]]
\* "__NODE_REF__<n>" for an n that is the identity of no object of D
Dangling(D) == Ref(CHOOSE n \in 1..(Cardinality(DOMAIN D) + 1) : n \notin DOMAIN D)
Dangle(D, d, key) == [D EXCEPT ![d] = SetKey(D[d], key, Dangling(D))]
ChildKeys(D, d) == {key \in DOMAIN D[d] : key # "type" /\ D[d][key].k = "dict"}
Documents(D) ==
    {D} \cup {Retag(D, d, "Bogus") : d \in DOMAIN D}
        \cup {Untag(D, d) : d \in DOMAIN D}
        \cup UNION {{Dangle(D, d, key) : key \in ChildKeys(D, d)} : d \in DOMAIN D}

InitDec ==
    \E prog \in DecPrograms :
       \E r \in {Load(<<>>, prog)} :
          \E enc \in {Serializer_node_to_dict(r.heap, r.id)} :
             \E D \in Documents(enc.results) :
                /\ heap = r.heap
                /\ root = r.id
                /\ src_tree = Struct(r.heap, r.id)
                /\ prev_tree = Struct(r.heap, r.id)
                /\ prev_heap = r.heap
                /\ passes = <<>>
                /\ runs = 0
                /\ outcome = NoOutcome
                /\ table = SymbolTable
                /\ matches = Matcher
                /\ ser = [Serializer EXCEPT !.results = D, !.doc = enc.doc]
NextDec == node_from_dict
SpecDec == InitDec /\ [][NextDec]_vars

(***************************************************************************)
(* Properties of decoding, checked under SpecDec.                          *)
(***************************************************************************)
\* an object of the document has no tag or a tag outside the tag set
BadTag(D) == \E d \in DOMAIN D : "type" \notin DOMAIN D[d] \/ ~IsNodeType(D[d]["type"])
\* a child slot of the document holds a placeholder that names no object
DanglingRef(D) ==
    \E d \in DOMAIN D : \E key \in DOMAIN D[d] :
        D[d][key].k = "ref" /\ D[d][key].v \notin DOMAIN D
\* a decoded node holds a placeholder string in a child slot
PlaceholderLeft ==
    \E id \in DOMAIN heap \ DOMAIN prev_heap :
        \E attr \in DOMAIN heap[id].a : heap[id].a[attr].k = "ref"

\* C13: decoding a document in which an object has no tag or an unknown
\* tag, or in which a placeholder names no object, raises a SerializeError
\* and returns no tree; no decoded tree holds a placeholder in a child slot.
C13_DecodeRejects ==
    outcome.op = "node_from_dict" =>
        /\ (BadTag(ser.results) \/ DanglingRef(ser.results)) =>
              /\ outcome.err.raised
              /\ outcome.err.kind = "SerializeError"
              /\ ser.decoded = 0
        /\ ~outcome.err.raised => ~PlaceholderLeft

(***************************************************************************)
(* Properties of find_matches on strings, checked under SpecMatch.         *)
(***************************************************************************)
\* the string has one of the forms of the query grammar
QueryForm(chars) ==
    \/ \E kw \in {<<"c", "a", "l", "l", " ">>, <<"a", "s", "s", "i", "g", "n", " ">>,
                   <<"n", "a", "m", "e", " ">>} : StartsWith(Strip(chars), kw)
    \/ Strip(chars) = <<"*">>
\* a step that is a call of find_matches with a string
FindsString ==
    /\ runs' = runs + 1 /\ outcome'.op = "find_matches" /\ matches'.query.k = "str"

MaxScopes == 3     \* scopes opened with enter_scope in one behaviour

\* table.enter_scope(name)
SymbolTable_enter_scope(name) ==
    /\ Len(table.scopes) <= MaxScopes
    /\ table' = enter_scope(table, name)
    /\ outcome' = [op |-> "enter_scope", err |-> NoErr, log |-> <<>>]
    /\ UNCHANGED <<heap, root, src_tree, prev_tree, prev_heap, passes, runs,
                   matches, ser>>

\* table.exit_scope(): the exception reaches the caller
SymbolTable_exit_scope ==
    /\ \E r \in {exit_scope(table)} :
          /\ table' = [r EXCEPT !.err = NoErr]
          /\ outcome' = [op |-> "exit_scope", err |-> r.err, log |-> <<>>]
    /\ UNCHANGED <<heap, root, src_tree, prev_tree, prev_heap, passes, runs,
                   matches, ser>>

\* table.define_symbol(name, node)
SymbolTable_define_symbol(name) ==
    /\ table' = define_symbol(table, name, root, "variable")
    /\ outcome' = [op |-> "define_symbol", err |-> NoErr, log |-> <<>>]
    /\ UNCHANGED <<heap, root, src_tree, prev_tree, prev_heap, passes, runs,
                   matches, ser>>

InitScope == InitTree(Program(<<Pass>>))
NextScope ==
    \/ \E name \in {"function_f", "class_C"} : SymbolTable_enter_scope(name)
    \/ SymbolTable_exit_scope
    \/ SymbolTable_define_symbol("x")
SpecScope == InitScope /\ [][NextScope]_vars

(***************************************************************************)
(* Properties of the scope stack, checked under SpecScope.                 *)
(***************************************************************************)
AtRoot(tb) == tb.scopes[tb.current_scope].parent = 0

\* C15: exit_scope in the root scope raises and leaves the symbol table as
\* it was; in any other scope it moves the current scope to the parent and
\* changes nothing else; and no step of any operation removes or replaces a
\* scope of the list.
C15_ExitScope ==
    [][/\ outcome'.op = "exit_scope" =>
            IF AtRoot(table)
            THEN outcome'.err.raised /\ table' = table
            ELSE /\ ~outcome'.err.raised
                 /\ table'.current_scope = table.scopes[table.current_scope].parent
                 /\ table' = [table EXCEPT !.current_scope = table'.current_scope]
       /\ Len(table'.scopes) >= Len(table.scopes)
       /\ \A i \in DOMAIN table.scopes :
             /\ table'.scopes[i].name = table.scopes[i].name
             /\ table'.scopes[i].parent = table.scopes[i].parent
             /\ \A j \in DOMAIN table.scopes[i].children :
                   table'.scopes[i].children[j] = table.scopes[i].children[j]]_vars

\* exit_scope has returned from a nested scope that holds a symbol to its
\* parent, which is not the root
C15_Witness ==
    /\ outcome.op = "exit_scope" /\ ~outcome.err.raised
    /\ ~AtRoot(table)
    /\ \E s \in DOMAIN table.scopes :
          /\ table.scopes[s].parent = table.current_scope
          /\ table.scopes[s].symbols # <<>>

\* exit_scope has raised in the root scope of a table that holds other scopes
C15_RootWitness ==
    /\ outcome.op = "exit_scope" /\ outcome.err.raised
    /\ AtRoot(table) /\ Len(table.scopes) > 1

(***************************************************************************)
(* Properties of the reachable flag, checked under SpecDce.                *)
(***************************************************************************)
\* the statement lists of a node
StmtLists(node) == {attr \in {"body", "orelse", "finalbody"} :
                      HasAttr(node, attr) /\ node.a[attr].k = "list"}

\* C16: the reachable flag is reset at the start of every statement list: a
\* statement that has no terminating statement at or before it in its own
\* list is never replaced, whatever the statement lists visited before its
\* list contain (the statements after a function definition whose body
\* returns are left in place).
C16_FlagPerList ==
    DceRan =>
        \A n \in TreeNodes(heap, root) \cap DOMAIN prev_heap :
            \A attr \in StmtLists(prev_heap[n]) :
                \A i \in DOMAIN prev_heap[n].a[attr].v :
                    (\A j \in 1..i :
                        ~is_terminating_statement(prev_heap, prev_heap[n].a[attr].v[j]))
                    => heap[n].a[attr].v[i] = prev_heap[n].a[attr].v[i]

(***************************************************************************)
(* Properties of the memoization cache, checked under SpecSym.             *)
(***************************************************************************)
\* a symbol table whose cache finds nothing and stores nothing
UncachedTable == [SymbolTable EXCEPT !.memoize = FALSE]

\* C17: the analysis of a tree has built the scopes, the symbols and the
\* definition and use lists that the same analysis builds without the
\* memoization cache.
C17_CacheIsOptimization ==
    (Analyzed /\ runs = 1) =>
        table.scopes = SymbolTable_analyze(UncachedTable, heap, root).scopes

(***************************************************************************)
(* Family Walk: the four walks over one tree.  The programs have children  *)
(* in the attributes body, orelse, value, test, targets, decorator_list,   *)
(* exc, args and msg; none has an operation that constant folding changes. *)
(***************************************************************************)
WalkStmts ==
    {Pass,
     Expr(Call(Name("f", "load"), <<Name("x", "load")>>, <<>>)),
     If(Name("x", "load"), <<Pass>>, <<Break>>),
     Assign(<<Name("y", "store")>>, Name("x", "load")),
     FunctionDef("f", <<>>, <<Pass>>, <<Name("d", "load")>>),
     Raise(Name("e", "load"), NoneVal),
     AssertStmt(Name("x", "load"), Name("m", "load"))}
WalkPrograms ==
    {Program(<<s>>) : s \in WalkStmts} \cup {Program(<<s, t>>) : s, t \in WalkStmts}

InitWalk == \E prog \in WalkPrograms : InitTree(prog)
NextWalk ==
    \/ analyze
    \/ find_matches(WildcardPattern)
    \/ add_pass(ConstantFoldingPass)
    \/ transform
    \/ node_to_dict
SpecWalk == InitWalk /\ [][NextWalk]_vars

(***************************************************************************)
(* Properties of the walks, checked under SpecWalk.                        *)
(***************************************************************************)
\* the children of node n that the schema declares for its tag
SchemaChildren(h, n) ==
    LET attrs == NODE_ATTRIBUTES(h[n].node_type)
        names == {attrs.single_nodes[i] : i \in DOMAIN attrs.single_nodes}
                 \cup {attrs.node_lists[i] : i \in DOMAIN attrs.node_lists}
    IN UNION {ValNodes(h[n].a[attr]) : attr \in names \cap DOMAIN h[n].a}

RECURSIVE SchemaReach(_, _, _)
SchemaReach(h, frontier, seen) ==
    IF frontier \subseteq seen THEN seen
    ELSE The({SchemaReach(h, next, seen \cup frontier) :
                 next \in {UNION {SchemaChildren(h, n) : n \in frontier \ seen}}})
SchemaNodes == SchemaReach(heap, {root}, {})

\* the nodes each component has visited, for the components that have run
SymbolWalked == table.memo_cache # {}
SymbolVisited == table.memo_cache
MatcherWalked == matches.query.k = "pattern"
MatcherVisited == {matches.found[i] : i \in DOMAIN matches.found}
SerializerWalked == ser.doc # 0
SerializerVisited == {ser.trace[i] : i \in DOMAIN ser.trace}
TransformerWalked == outcome.op = "transform"
TransformerVisited == {Trace[i].node : i \in Entries("transform")}

\* C18: the matcher, the transformer, symbol analysis and the serializer
\* each visit exactly the nodes reachable through the child attributes the
\* schema declares, so the four walks reach the same nodes.
C18_SameChildren ==
    /\ SymbolWalked => SymbolVisited = SchemaNodes
    /\ MatcherWalked => MatcherVisited = SchemaNodes
    /\ SerializerWalked => SerializerVisited = SchemaNodes
    /\ TransformerWalked => TransformerVisited = SchemaNodes

(***************************************************************************)
(* Properties of the walk of one pass, checked under SpecPipe.             *)
(***************************************************************************)
\* the value attribute attr of node n held just before trace entry pos
WritesBefore(pos, n, attr) ==
    {i \in Writes : i < pos /\ Trace[i].node = n /\ Trace[i].attr = attr}
SlotAt(pos, n, attr) ==
    IF WritesBefore(pos, n, attr) # {}
    THEN Trace[CHOOSE i \in WritesBefore(pos, n, attr) :
                  \A j \in WritesBefore(pos, n, attr) : j <= i].val
    ELSE IF n \in DOMAIN prev_heap THEN prev_heap[n].a[attr] ELSE heap[n].a[attr]
ChildrenAt(pos, n) == UNION {ValNodes(SlotAt(pos, n, attr)) : attr \in DOMAIN heap[n].a}

\* the first entry of the walk of the pass that made entry i
PassStart(i) ==
    CHOOSE j \in DOMAIN Trace :
        /\ Trace[j].index = Trace[i].index
        /\ \A l \in DOMAIN Trace : Trace[l].index = Trace[i].index => j <= l
\* entry r records that a transform call of the pass of entry i returned node p
ReturnedBefore(r, i, p) ==
    /\ r \in Entries("return") /\ r < i
    /\ Trace[r].index = Trace[i].index
    /\ Trace[r].val = NodeRef(p)

\* C19: within one pass every transform call other than the one on the root
\* is made on a node that, at the time of the call, is a child of a node
\* that an earlier transform call of the pass returned; and every slot that
\* _apply_pass assigns belongs to a returned node and receives the nodes
\* that the transform calls on its children returned.
C19_PreOrderOnReturned ==
    outcome.op = "transform" =>
        /\ \A t \in Entries("transform") :
              t # PassStart(t) =>
                 \E r \in Entries("return") :
                    /\ r < t /\ Trace[r].index = Trace[t].index
                    /\ Trace[r].val.k = "node"
                    /\ Trace[t].node \in ChildrenAt(t, Trace[r].val.v)
        /\ \A a \in Entries("assign") :
              /\ \E r \in Entries("return") : ReturnedBefore(r, a, Trace[a].node)
              /\ \A c \in ValNodes(Trace[a].val) :
                    \E q \in Entries("return") :
                       /\ ReturnedBefore(q, a, c)
                       /\ \E r \in Entries("return") :
                             r < q /\ ReturnedBefore(r, a, Trace[a].node)

\* transform returned a new node for a binary operation, the operands of the
\* operation were not visited, and the slot of the operation holds the new
\* node
C19_Witness ==
    /\ outcome.op = "transform" /\ ~outcome.err.raised /\ runs = 1
    /\ \E r \in Entries("return") :
          /\ Trace[r].val # NodeRef(Trace[r].node)
          /\ prev_heap[Trace[r].node].node_type = "BinOp"
          /\ \A t \in Entries("transform") :
                Trace[t].index = Trace[r].index =>
                   Trace[t].node \notin Children(prev_heap, Trace[r].node)
          /\ \E a \in Entries("assign") :
                /\ a > r /\ Trace[a].val = Trace[r].val
                /\ heap[Trace[a].node].a[Trace[a].attr] = Trace[r].val

(***************************************************************************)
(* Properties of the order of find_matches, checked under SpecWalk.        *)
(***************************************************************************)
RECURSIVE Flatten(_)
Flatten(seqs) == IF seqs = <<>> THEN <<>> ELSE Head(seqs) \o Flatten(Tail(seqs))

\* the nodes a slot holds, in order
SlotSeq(val) ==
    CASE val.k = "node" -> <<val.v>>
      [] val.k = "list" -> SelectSeq(val.v, LAMBDA c : c # 0)
      [] OTHER -> <<>>

\* the children of n in schema order: the single-child attributes in
\* declared order, then the child-list attributes in declared order
SchemaChildSeq(h, n) ==
    LET attrs == NODE_ATTRIBUTES(h[n].node_type)
        order == attrs.single_nodes \o attrs.node_lists
    IN Flatten([i \in DOMAIN order |->
                  IF HasAttr(h[n], order[i]) THEN SlotSeq(h[n].a[order[i]]) ELSE <<>>])

RECURSIVE SchemaPreOrder(_, _)
SchemaPreOrder(h, n) ==
    <<n>> \o Flatten([i \in DOMAIN SchemaChildSeq(h, n) |->
                        SchemaPreOrder(h, SchemaChildSeq(h, n)[i])])

\* the nodes reachable through the attributes the matcher walks
MatcherChildren(h, n) ==
    UNION {ValNodes(h[n].a[MatcherAttrs[i][1]]) :
             i \in {j \in DOMAIN MatcherAttrs : HasAttr(h[n], MatcherAttrs[j][1])}}
RECURSIVE MatcherReach(_, _, _)
MatcherReach(h, frontier, seen) ==
    IF frontier \subseteq seen THEN seen
    ELSE The({MatcherReach(h, next, seen \cup frontier) :
                 next \in {UNION {MatcherChildren(h, n) : n \in frontier \ seen}}})

\* node a comes before node b in the sequence
Precedes(seq, a, b) ==
    \E i, j \in DOMAIN seq : i < j /\ seq[i] = a /\ seq[j] = b

\* the wildcard pattern matches every node, so the list is the walk
NoPruning == MatcherVisited = MatcherReach(heap, {root}, {})
ParentsFirst ==
    \A i, j \in DOMAIN matches.found :
        matches.found[j] \in MatcherChildren(heap, matches.found[i]) => i < j

\* C20: find_matches returns the matching nodes in pre-order with the
\* children of every node taken in schema order (an if statement's test
\* before its body before its else branch), and a match does not stop the
\* walk below it.
C20_SchemaPreOrder ==
    MatcherWalked =>
        /\ NoPruning
        /\ ParentsFirst
        /\ \A i, j \in DOMAIN matches.found :
              i < j => Precedes(SchemaPreOrder(heap, root),
                                matches.found[i], matches.found[j])

(***************************************************************************)
(* Family Rename: one renaming pass over trees that hold the name x in     *)
(* each kind of child attribute: value, test, orelse, exc, msg, type,      *)
(* decorator_list and bases.                                               *)
(***************************************************************************)
RenameStmts ==
    {Expr(Name("x", "load")),
     If(Name("x", "load"), <<Pass>>, <<Expr(Name("x", "load"))>>),
     Raise(Name("x", "load"), NoneVal),
     AssertStmt(Name("c", "load"), Name("x", "load")),
     Try(<<Pass>>, <<ExceptHandler(Name("x", "load"), "", <<Pass>>)>>, <<>>, <<>>),
     FunctionDef("f", <<>>, <<Pass>>, <<Name("x", "load")>>),
     ClassDef("C", <<Name("x", "load")>>, <<Pass>>, <<>>)}
RenamePrograms ==
    {Program(<<s>>) : s \in RenameStmts} \cup {Program(<<s, t>>) : s, t \in RenameStmts}
RenamePasses == {VariableRenamingPass("x", "y"), VariableRenamingPass("y", "x")}

InitRename == \E prog \in RenamePrograms : InitTree(prog)
NextRename == (\E p \in RenamePasses : add_pass(p)) \/ transform
SpecRename == InitRename /\ [][NextRename]_vars

\* the only pass of the first run has returned
Renamed == outcome.op = "transform" /\ runs = 1 /\ Len(passes) = 1
              /\ ~outcome.err.raised

\* C21: after the renaming pass old -> new has run through
\* Transformer.transform, no node reachable through the schema-declared child
\* attributes has the identifier old, and the nodes of the tree are the
\* objects they were before the run.
C21_RenameComplete ==
    Renamed =>
        /\ \A n \in SchemaNodes :
              HasAttr(heap[n], "id") => heap[n].a.id # Str(passes[1].old_name)
        /\ SchemaNodes = SchemaReach(prev_heap, {root}, {})
        /\ \A n \in SchemaNodes : heap[n].node_type = prev_heap[n].node_type

(***************************************************************************)
(* Family Tab: symbol analysis of programs of one to three statements that *)
(* call, define and read names in every order, with nested and sibling     *)
(* scopes.                                                                 *)
(***************************************************************************)
CallName(id) == Expr(Call(Name(id, "load"), <<>>, <<>>))
TabStmts ==
    {CallName("f"),
     FunctionDef("f", <<>>, <<Pass>>, <<>>),
     FunctionDef("g", <<"a">>,
                 <<FunctionDef("h", <<>>, <<ExprName("x")>>, <<>>), AssignTo("y", 1)>>,
                 <<>>),
     AssignTo("x", 1),
     ExprName("x"),
     ClassDef("C", <<>>, <<AssignTo("x", 2)>>, <<>>)}
TabPrograms == {Program(body) : body \in UNION {[1..n -> TabStmts] : n \in 1..3}}

InitTab == \E prog \in TabPrograms : InitTree(prog)
NextTab == analyze
SpecTab == InitTab /\ [][NextTab]_vars

\* the table of the first analysis run at the moment the first k statements
\* of the program have been analysed
TableAfter(k) ==
    AnalyzeList(SymbolTable, heap, NodeList(SubSeq(heap[root].a.body.v, 1, k)), 1)

IsPrefix(s, t) == Len(s) <= Len(t) /\ SubSeq(t, 1, Len(s)) = s

\* every symbol of table a is in the same scope of table b, with the
\* definitions and uses it had followed by the later ones
Grows(a, b) ==
    \A s \in DOMAIN a.scopes : \A i \in DOMAIN a.scopes[s].symbols :
        LET old == a.scopes[s].symbols[i]
            j == SymIndex(b.scopes[s], old.name)
        IN /\ j # 0
           /\ IsPrefix(old.definitions, b.scopes[s].symbols[j].definitions)
           /\ IsPrefix(old.references, b.scopes[s].symbols[j].references)

\* C22: during one analysis run a symbol once created in a scope is never
\* removed or replaced, and its definition and use lists only grow: from one
\* statement of the program to the next, and to the end of the run.
C22_SymbolsGrow ==
    (Analyzed /\ runs = 1) =>
        /\ \A k \in 1..Len(heap[root].a.body.v) : Grows(TableAfter(k - 1), TableAfter(k))
        /\ Grows(TableAfter(Len(heap[root].a.body.v)), table)

(***************************************************************************)
(* Family Inline: function inlining over programs of two top-level         *)
(* functions with different names and one call, the call before or after   *)
(* the functions.  The functions have a single return of an expression     *)
(* (with and without parameters, with a call inside, calling themselves),  *)
(* a bare return, two statements, a statement that is no return, or a      *)
(* nested single-return function; the callee is one of their names, an     *)
(* unknown name or an attribute.                                           *)
(***************************************************************************)
CallOf(id, args) == Call(Name(id, "load"), args, <<>>)
InlineDefs ==
    {FunctionDef("f", <<>>, <<ReturnOne>>, <<>>),
     FunctionDef("g", <<"a">>, <<Return(BinOp(Name("a", "load"), "+", Num(1)))>>, <<>>),
     FunctionDef("k", <<>>, <<AssignTo("x", 1), Return(Name("x", "load"))>>, <<>>),
     FunctionDef("p", <<>>, <<Pass>>, <<>>),
     FunctionDef("r", <<>>, <<Return(NoneVal)>>, <<>>),
     FunctionDef("w", <<>>, <<Return(BinOp(CallOf("w", <<>>), "+", Num(1)))>>, <<>>),
     FunctionDef("q", <<>>, <<Return(CallOf("f", <<>>))>>, <<>>),
     FunctionDef("o", <<>>, <<FunctionDef("n", <<>>, <<ReturnOne>>, <<>>)>>, <<>>)}
InlineCalls ==
    {Expr(CallOf(id, <<>>)) : id \in {"f", "k", "p", "r", "w", "q", "n", "u"}}
    \cup {Expr(CallOf("g", <<Num(2)>>)),
          Expr(Call(Attribute(Name("o", "load"), "f", "load"), <<>>, <<>>)),
          Assign(<<Name("x", "store")>>, CallOf("f", <<>>))}
InlineDefPairs == {ds \in InlineDefs \X InlineDefs : ds[1] # ds[2]}
InlinePrograms ==
    {Program(<<ds[1], ds[2], c>>) : ds \in InlineDefPairs, c \in InlineCalls}
    \cup {Program(<<c, ds[1], ds[2]>>) : ds \in InlineDefPairs, c \in InlineCalls}

InitInline == \E prog \in InlinePrograms : InitTree(prog)
NextInline == add_pass(FunctionInliningPass) \/ transform
SpecInline == InitInline /\ [][NextInline]_vars

\* the top-level functions named id when trace entry pos is made
TopLevelDefs(pos, id) ==
    {d \in ValNodes(SlotAt(pos, root, "body")) :
        IsInstance(heap, d, "FunctionDef") /\ heap[d].a.name = id}
\* the body of function d is exactly one return statement
SingleReturn(pos, d) ==
    /\ Len(SlotAt(pos, d, "body").v) = 1
    /\ IsInstance(heap, SlotAt(pos, d, "body").v[1], "Return")
\* the callee of node n is a plain name
PlainCallee(pos, n) ==
    /\ IsInstance(heap, n, "Call")
    /\ SlotAt(pos, n, "func").k = "node"
    /\ IsInstance(heap, SlotAt(pos, n, "func").v, "Name")
CalleeDefs(pos, n) == TopLevelDefs(pos, heap[SlotAt(pos, n, "func").v].a.id)
\* the expression of the single return statement of d
ReturnValue(pos, d) == SlotAt(pos, SlotAt(pos, d, "body").v[1], "value")

\* C23: the inlining pass replaces a call only when its callee is a plain
\* name, the name of a top-level function whose body is exactly one return
\* statement, and then by the expression of that return statement as it is;
\* for every other node transform returns the node itself.  (The return
\* without an expression is the case of C30.)
C23_InlineOnlySimple ==
    outcome.op = "transform" =>
        \A r \in Entries("return") :
            LET n == Trace[r].node IN
            IF PlainCallee(r, n) /\ \E d \in CalleeDefs(r, n) : SingleReturn(r, d)
            THEN \A d \in CalleeDefs(r, n) :
                    ReturnValue(r, d).k = "node" => Trace[r].val = ReturnValue(r, d)
            ELSE Trace[r].val = NodeRef(n)

\* a call of a one-parameter function with an argument was replaced by the
\* function's return expression, which still reads the parameter, and the
\* statement that held the call holds that expression
C23_Witness ==
    /\ outcome.op = "transform" /\ ~outcome.err.raised /\ runs = 1
    /\ \E r \in Entries("return") :
          /\ PlainCallee(r, Trace[r].node)
          /\ Len(prev_heap[Trace[r].node].a.args.v) = 1
          /\ Trace[r].val.k = "node"
          /\ heap[Trace[r].val.v].node_type = "BinOp"
          /\ heap[heap[Trace[r].val.v].a.left.v].a.id = Str("a")
          /\ \E e \in DOMAIN heap :
                /\ IsInstance(heap, e, "Expr")
                /\ prev_heap[e].a.value = NodeRef(Trace[r].node)
                /\ heap[e].a.value = Trace[r].val

(***************************************************************************)
(* Family Ref: reads of the name x between scope entries and exits and     *)
(* definitions of x, on a table that holds at most MaxRefs uses.           *)
(***************************************************************************)
MaxRefs == 2

\* the uses recorded in table tb
RECURSIVE UseCount(_, _)
UseCount(tb, s) ==
    IF s > Len(tb.scopes) THEN 0
    ELSE Len(Flatten([i \in DOMAIN tb.scopes[s].symbols |->
                        tb.scopes[s].symbols[i].references])) + UseCount(tb, s + 1)

\* table.reference_symbol(name, node), node the Name of the program
SymbolTable_reference_symbol(name) ==
    /\ UseCount(table, 1) < MaxRefs
    /\ table' = reference_symbol(table, name, heap[heap[root].a.body.v[1]].a.value.v)
    /\ outcome' = [op |-> "reference_symbol", err |-> NoErr, log |-> <<>>]
    /\ UNCHANGED <<heap, root, src_tree, prev_tree, prev_heap, passes, runs,
                   matches, ser>>

InitRef == InitTree(Program(<<ExprName("x")>>))
NextRef ==
    \/ SymbolTable_enter_scope("function_f")
    \/ SymbolTable_exit_scope
    \/ SymbolTable_define_symbol("x")
    \/ SymbolTable_reference_symbol("x")
SpecRef == InitRef /\ [][NextRef]_vars

\* the scopes from s up to the root
RECURSIVE ScopeChain(_, _)
ScopeChain(tb, s) == IF s = 0 THEN <<>> ELSE <<s>> \o ScopeChain(tb, tb.scopes[s].parent)
\* the places of the chain of the current scope whose scope holds a symbol x
Holders(tb) ==
    {c \in DOMAIN ScopeChain(tb, tb.current_scope) :
        SymIndex(tb.scopes[ScopeChain(tb, tb.current_scope)[c]], "x") # 0}
\* the first scope with a symbol x on the way from the current scope to the root
Nearest(tb) ==
    ScopeChain(tb, tb.current_scope)[CHOOSE c \in Holders(tb) :
                                        \A d \in Holders(tb) : c <= d]
ReadNode == heap[heap[root].a.body.v[1]].a.value.v

\* C24: a read of x records one use on the first symbol x found from the
\* current scope to the root and changes nothing else; when there is none,
\* a symbol x with no definition and that one use is added to the current
\* scope, no error is raised, and get_undefined_variables reports x.
C24_ReadRecordsUse ==
    [][outcome'.op = "reference_symbol" =>
          /\ ~outcome'.err.raised /\ ~table'.err.raised
          /\ IF Holders(table) # {}
             THEN table' = [table EXCEPT
                     !.scopes[Nearest(table)].symbols[
                         SymIndex(table.scopes[Nearest(table)], "x")].references =
                            Append(@, ReadNode)]
             ELSE /\ table' = [table EXCEPT
                        !.scopes[table.current_scope].symbols =
                            Append(@, [Symbol("x", "variable") EXCEPT
                                         !.references = <<ReadNode>>,
                                         !.scope_level =
                                            table.scopes[table.current_scope].level])]
                  /\ \E i \in DOMAIN get_undefined_variables(table', 1) :
                        get_undefined_variables(table', 1)[i] = "x"]_vars

\* a read in a nested scope has recorded its use on the symbol of an outer
\* scope that is not the parent, and another read has made a placeholder in
\* a scope from which no symbol x could be seen
C24_Witness ==
    /\ outcome.op = "reference_symbol"
    /\ \E s \in DOMAIN table.scopes :
          /\ s # table.current_scope /\ s # table.scopes[table.current_scope].parent
          /\ SymIndex(table.scopes[s], "x") # 0
          /\ table.scopes[s].symbols[SymIndex(table.scopes[s], "x")].definitions # <<>>
          /\ table.scopes[s].symbols[SymIndex(table.scopes[s], "x")].references # <<>>
    /\ \E s \in DOMAIN table.scopes :
          /\ SymIndex(table.scopes[s], "x") # 0
          /\ table.scopes[s].symbols[SymIndex(table.scopes[s], "x")].definitions = <<>>
          /\ Len(get_undefined_variables(table, 1)) = 1

(***************************************************************************)
(* Family Typ: analysis of one or two assignments to x whose values are    *)
(* literals of the four kinds or binary operations of two literals.        *)
(***************************************************************************)
BoolV(b) == [k |-> "bool", v |-> b]
Lit(value) == Constant(value, NoneVal)
TypValues ==
    {Lit(IntV(1)), Lit(Str("a")), Lit(BoolV(TRUE)), Lit(FloatV(3, 2)),
     BinOp(Lit(IntV(1)), "+", Lit(IntV(2))),
     BinOp(Lit(Str("a")), "+", Lit(Str("b"))),
     BinOp(Lit(IntV(1)), "+", Lit(FloatV(3, 2)))}
TypPrograms ==
    {Program(<<Assign(<<Name("x", "store")>>, v)>>) : v \in TypValues}
    \cup {Program(<<Assign(<<Name("x", "store")>>, v),
                    Assign(<<Name("x", "store")>>, w)>>) : v, w \in TypValues}

InitTyp == \E prog \in TypPrograms : InitTree(prog)
NextTyp == analyze
SpecTyp == InitTyp /\ [][NextTyp]_vars

\* the type name of a literal kind
KindName(k) ==
    CASE k = "int" -> "int" [] k = "str" -> "str" [] k = "bool" -> "bool"
      [] k = "float" -> "float" [] OTHER -> "NoneType"
\* the type name the rules give the value node v: a literal has its kind, an
\* operation of two literals of one kind has that kind, an operation of an
\* int and a float literal is float
ValueTypeName(v) ==
    IF heap[v].node_type = "Constant" THEN KindName(heap[v].a.value.k)
    ELSE LET l == KindName(heap[heap[v].a.left.v].a.value.k)
             r == KindName(heap[heap[v].a.right.v].a.value.k)
         IN IF l = r THEN l ELSE "float"
\* the values assigned to x by the statements of the program
AssignedValues == {heap[d].a.value.v : d \in BodyOf(heap, root)}

\* C25: after analyze, a variable whose definitions all assign values of one
\* type (literals of one kind, operations of two literals of one kind, or
\* operations mixing an int and a float literal) has that type as its
\* inferred type name.
C25_LiteralTypes ==
    (Analyzed /\ runs = 1) =>
        \A t \in {ValueTypeName(v) : v \in AssignedValues} :
            (\A v \in AssignedValues : ValueTypeName(v) = t)
               => table.scopes[1].symbols[SymIndex(table.scopes[1], "x")]
                     .type_info.type_name = t

(***************************************************************************)
(* Properties of the scope levels, checked under SpecTab.                  *)
(***************************************************************************)
\* the nesting depth of scope s: the number of scopes above it
Depth(tb, s) == Len(ScopeChain(tb, s)) - 1

\* C26: the level of every scope is its nesting depth, 0 for the root and
\* the parent's level plus one for every other scope, so that sibling scopes
\* have the same level; and the scope_level of every symbol is the nesting
\* depth of the scope that holds it.
C26_LevelIsDepth ==
    Analyzed =>
        \A s \in DOMAIN table.scopes :
            /\ table.scopes[s].level = Depth(table, s)
            /\ table.scopes[s].parent # 0 =>
                  table.scopes[s].level = table.scopes[table.scopes[s].parent].level + 1
            /\ \A i \in DOMAIN table.scopes[s].symbols :
                  table.scopes[s].symbols[i].scope_level = Depth(table, s)

(***************************************************************************)
(* Properties of the end of an inlining run, checked under SpecInline.     *)
(***************************************************************************)
\* the run was stopped by the interpreter's recursion limit
RecursionExceeded ==
    outcome.err.raised /\ outcome.err.cause = "maximum recursion depth exceeded"
\* no node of the tree is reachable from its own children
Acyclic(h, r) == \A n \in TreeNodes(h, r) : n \notin Reach(h, Children(h, n), {})

\* C27: a run of the inlining pass over a finite acyclic tree comes to its
\* end by itself, without running into the recursion limit, and leaves the
\* tree acyclic, also when a top-level single-return function calls itself.
C27_InliningTerminates ==
    outcome.op = "transform" => ~RecursionExceeded /\ Acyclic(heap, root)

(***************************************************************************)
(* Properties of the current scope during analysis, checked under SpecTab. *)
(***************************************************************************)
Walk == table.walk
Calls == {i \in DOMAIN Walk : Walk[i].ev = "call"}
CallOn(n) == CHOOSE i \in Calls : Walk[i].node = n
ReturnOn(n) == CHOOSE i \in DOMAIN Walk : Walk[i].ev = "return" /\ Walk[i].node = n

\* the node that holds n in one of its slots, 0 for the root of the tree
ParentNode(n) ==
    IF \E p \in DOMAIN heap : n \in Children(heap, p)
    THEN CHOOSE p \in DOMAIN heap : n \in Children(heap, p)
    ELSE 0
\* the innermost function or class definition around n, 0 when there is none
RECURSIVE EnclosingDef(_)
EnclosingDef(n) ==
    IF ParentNode(n) = 0 THEN 0
    ELSE IF heap[ParentNode(n)].node_type \in {"FunctionDef", "ClassDef"}
    THEN ParentNode(n)
    ELSE EnclosingDef(ParentNode(n))
\* the scope opened for definition d: the first one created during its analysis
OpenedFor(d) == IF d = 0 THEN 1 ELSE Walk[CallOn(d)].scopes + 1

ReuseFirst ==
    {Program(<<ExprName("x")>>), Program(<<ExprName("y")>>),
     Program(<<AssignTo("x", 0), ExprName("x")>>), Program(<<ReturnOne>>)}
ReuseSecond ==
    {Program(<<AssignTo("x", 1)>>), Program(<<AssignTo("y", 1)>>),
     Program(<<AssignTo("x", 1), ExprName("x")>>),
     Program(<<AssignTo("x", 1), AssignTo("y", 2)>>)}
ReusePasses == {UnusedVariableRemovalPass, DeadCodeEliminationPass}

\* the trees the caller holds
Trees(h) == {p \in DOMAIN h : IsInstance(h, p, "Program")}

\* tree = the other tree
select_tree(t) ==
    /\ t \in Trees(heap) \ {root}
    /\ root' = t
    /\ outcome' = [op |-> "select_tree", err |-> NoErr, log |-> <<>>]
    /\ UNCHANGED <<heap, src_tree, prev_tree, prev_heap, passes, runs,
                   table, matches, ser>>

InitReuse ==
    \E a \in ReuseFirst, b \in ReuseSecond :
        \E r \in {Load(<<>>, a)} : \E q \in {Load(r.heap, b)} : InitHeap(q.heap, r.id)
NextReuse ==
    \/ \E p \in ReusePasses : add_pass(p)
    \/ transform
    \/ \E t \in DOMAIN heap : select_tree(t)
SpecReuse == InitReuse /\ [][NextReuse]_vars

\* the pass instances as their constructors leave them
Fresh(ps) ==
    [i \in DOMAIN ps |->
        [ps[i] EXCEPT !.used_variables = {}, !.reachable = TRUE, !.function_defs = <<>>]]
\* the run that fresh instances of the passes make on the tree the last run
\* was given
FreshRun == Transformer_transform(prev_heap, Fresh(passes), root)

\* C29: the result of a run depends only on the tree it is given: the tree
\* the transformer returns is the tree that fresh instances of its passes
\* return for the same input, whatever trees the instances processed before.
C29_RunsIndependent ==
    outcome.op = "transform" =>
        /\ outcome.err.raised = FreshRun.err.raised
        /\ Struct(heap, root) = Struct(FreshRun.heap, FreshRun.tree)

(***************************************************************************)
(* Properties of the slots after a run, checked under SpecInline.          *)
(***************************************************************************)
\* the slot value new holds a node wherever the slot value old held one
StillHolds(old, new) ==
    CASE old.k = "node" -> new.k = "node"
      [] old.k = "list" ->
           /\ new.k = "list" /\ Len(new.v) = Len(old.v)
           /\ \A i \in DOMAIN old.v : old.v[i] # 0 => new.v[i] # 0
      [] OTHER -> TRUE

\* C30: in the tree that transform returns, every single-child attribute and
\* every child-list element that held a node before the run holds a node.
C30_NoEmptiedSlot ==
    (outcome.op = "transform" /\ ~outcome.err.raised) =>
        \A n \in TreeNodes(heap, root) \cap DOMAIN prev_heap :
            \A attr \in DOMAIN heap[n].a :
                StillHolds(prev_heap[n].a[attr], heap[n].a[attr])

====
